---- MODULE Spec2Model ----
(***************************************************************************)
(* A model of the notification relay of main.go: the connection registry   *)
(* (clients, guarded by msgLock), the per-connection handler               *)
(* handleWebSocket, the producer handler sendNotification with its         *)
(* persistence (saveToDB / ensureTable, one step per SQL statement) and    *)
(* the broadcast sweep broadcastNotification.                              *)
(***************************************************************************)
EXTENDS Integers, Sequences, FiniteSets, TLC

(***************************************************************************)
(* Bounds of the model.                                                    *)
(***************************************************************************)
\* POST /notification requests each producer issues
MaxSends == 1
\* POST /notification requests of all producers together
MaxRequests == 2
\* messages the clients send after their subscription messages, over all connections
MaxMsgs == 1
\* connections whose peer may stop reading at the same time
MaxStalls == 1
\* connections whose peer closes, or whose network breaks, during a run
MaxCloses == 1

\* the connections opened during a run (each *websocket.Conn is opened once)
Conns == {"w1", "w2", "w3"}
Producers == {"p1", "p2"}
\* goroutines that serve GET /api/metrics
Readers == {"g1"}
\* channels a connection names in a subscription message
SubChannels == {"orders", "chat"}

\* the columns ensureTable never derives from a payload key
BaseColumns == {"id", "created_at", "event"}

\* request bodies of POST /notification: one that does not bind, and notifications
\* JSON scalars of a payload
Str(s) == [kind |-> "string", str |-> s, num |-> 0]
Num(n) == [kind |-> "number", str |-> "", num |-> n]

Malformed == [malformed |-> TRUE]
Notifs ==
    { [channel |-> "orders", event |-> "created",
       data |-> [sender |-> Str("c1"), amount |-> Num(150000)]],
      [channel |-> "orders", event |-> "paid", data |-> [sender |-> Str("c1")]],
      [channel |-> "legacy", event |-> "created", data |-> [sender |-> Str("c2")]],
      [channel |-> "chat", event |-> "created", data |-> <<>>] }
Bodies == {Malformed} \cup Notifs
\* the notifications on the channels chs, and those of one event kind
NotifsOn(chs) == {n \in Notifs : n.channel \in chs}
BodiesOf(chs) == {n \in NotifsOn(chs) : n.event = "created"}
NoNotif == [channel |-> "", event |-> "", data |-> <<>>]

VARIABLES
    useDB,          \* main.go:27
    clients,        \* main.go:29, the registry: connection -> channel
    msgLock,        \* main.go:30, "free" or the goroutine that holds it
    metrics,        \* main.go:33, the WebSocketStats counters
    tables,         \* the database: relation name -> set of column names
    rows,           \* the database: relation name -> sequence of rows
    interpolated,   \* the names saveToDB has put into the text of a statement it sent
    metricsLock,    \* main.go:45, the callers of getMetrics that hold the read lock
    gpc,            \* each getMetrics caller's position in getMetrics
    wsStats,        \* getMetrics' local wsStats, which the returned Metrics points to
    hdr,            \* the key and secret headers of each connection's and producer's request
    sock,           \* each connection's socket: "none", "open", "stalled", "closed"
    frames,         \* each connection: the frames written to it, in order
    cpc,            \* each connection handler's position in handleWebSocket
    sub,            \* handleWebSocket's local subscription.Channel
    lastSub,        \* the channel named in the last subscription message read from the connection
    msgs,           \* messages read by the read loops so far
    closes,         \* connections closed by their peer so far
    ppc,            \* each producer's position in sendNotification
    body,           \* the body of the producer's current request
    notif,          \* sendNotification's local notif
    call,           \* the number of the producer's current request
    fieldsTodo,     \* ensureTable: the keys of data the second range loop has not visited
    cur,            \* ensureTable: the loop's current field
    eventExists,    \* ensureTable's local eventExists
    todo,           \* broadcastNotification: the entries of clients the range loop has not visited
    successCount,   \* broadcastNotification's local
    failedCount,    \* broadcastNotification's local
    attempted,      \* the connections WriteJSON was called on in the current sweep
    failedTo,       \* the connections on which WriteJSON failed in the current sweep
    dispatched,     \* the number of the last request for which the producer started a broadcast
    returned,       \* the requests whose broadcastNotification call has returned
    returnedBefore, \* per producer and request: what returned held when its broadcast took msgLock
    resp,           \* the last response of each producer: status and error kind
    found           \* the last request to /search or /notifications, the query it ran
                    \* and its response

vars == <<useDB, clients, msgLock, metrics, metricsLock, gpc, wsStats, tables, rows, interpolated, hdr, sock, frames, cpc, sub,
          lastSub, msgs, closes, ppc, body, notif, call, fieldsTodo, cur, eventExists, todo, successCount,
          failedCount, attempted, failedTo, dispatched, returned, returnedBefore, resp, found>>

connVars == <<sock, frames, cpc, sub, lastSub, msgs, closes>>
prodVars == <<ppc, body, notif, call, fieldsTodo, cur, eventExists, todo, successCount, failedCount,
              attempted, failedTo, dispatched, returned, returnedBefore, resp>>
dbVars == <<tables, rows>>
monVars == <<metricsLock, gpc, wsStats>>

NoChannel == "-"
NoBody == [none |-> TRUE]
NoResp == [status |-> 0, error |-> "none"]
NoQuery == [relation |-> "", conditions |-> <<>>, args |-> <<>>]
NoHeaders == [key |-> "", secret |-> ""]
NoStats == [byValue |-> [none |-> TRUE], sharedMap |-> FALSE]
NoFound == [route |-> "", headers |-> NoHeaders, request |-> NoBody, status |-> 0, error |-> "none",
            query |-> NoQuery, data |-> <<>>]

\* a table created before the event column was introduced (main.go:151-171 handles it)
LegacyTables == [t \in {"legacy"} |-> {"id", "created_at"}]

InitStore(useDB0, tables0, rows0) ==
    /\ useDB = useDB0
    /\ clients = <<>>
    /\ msgLock = "free"
    /\ metrics = [TotalConnections |-> 0, ActiveConnections |-> 0,
                  TotalMessagesSent |-> 0, TotalMessagesFailed |-> 0,
                  MessagesByChannel |-> <<>>]
    /\ metricsLock = {}
    /\ gpc = [g \in Readers |-> "idle"]
    /\ wsStats = [g \in Readers |-> NoStats]
    /\ tables = tables0
    /\ rows = rows0
    /\ interpolated = {}
    /\ hdr = [x \in Conns \cup Producers |-> NoHeaders]
    /\ sock = [c \in Conns |-> "none"]
    /\ frames = [c \in Conns |-> <<>>]
    /\ cpc = [c \in Conns |-> "init"]
    /\ sub = [c \in Conns |-> NoChannel]
    /\ lastSub = [c \in Conns |-> NoChannel]
    /\ msgs = 0
    /\ closes = 0
    /\ ppc = [p \in Producers |-> "idle"]
    /\ body = [p \in Producers |-> NoBody]
    /\ notif = [p \in Producers |-> NoNotif]
    /\ call = [p \in Producers |-> 0]
    /\ fieldsTodo = [p \in Producers |-> {}]
    /\ cur = [p \in Producers |-> ""]
    /\ eventExists = [p \in Producers |-> FALSE]
    /\ todo = [p \in Producers |-> {}]
    /\ successCount = [p \in Producers |-> 0]
    /\ failedCount = [p \in Producers |-> 0]
    /\ attempted = [p \in Producers |-> {}]
    /\ failedTo = [p \in Producers |-> {}]
    /\ dispatched = [p \in Producers |-> 0]
    /\ returned = {}
    /\ returnedBefore = [p \in Producers |-> <<>>]
    /\ resp = [p \in Producers |-> NoResp]
    /\ found = NoFound

InitWith(useDB0) == InitStore(useDB0, LegacyTables, [t \in DOMAIN LegacyTables |-> <<>>])

(***************************************************************************)
(* conn.WriteJSON(v): on an open socket the frame is written and nil is    *)
(* returned; on a closed socket an error is returned and nothing is        *)
(* written. On a stalled socket the call does not return (callers guard).  *)
(***************************************************************************)
WriteOk(c) == sock[c] = "open"

\* the peer sees the frames of a connection in the order they were written
WriteJSONFront(c, v) ==
    IF WriteOk(c) THEN [frames EXCEPT ![c] = <<v>> \o @] ELSE frames

WriteJSON(c, v) ==
    IF WriteOk(c) THEN [frames EXCEPT ![c] = Append(@, v)] ELSE frames

ErrorFrame == [error |-> "Invalid subscription request"]
Confirmation(ch) == [message |-> "Subscribed to channel", channel |-> ch]

(***************************************************************************)
(* handleWebSocket                                                         *)
(***************************************************************************)
\* upgrader.Upgrade succeeds and the handler goes on to read the subscription
UpgradeWith(c, h) ==
    /\ cpc[c] = "init"
    /\ hdr' = [hdr EXCEPT ![c] = h]
    /\ cpc' = [cpc EXCEPT ![c] = "readSub"]
    /\ sock' = [sock EXCEPT ![c] = "open"]
    /\ UNCHANGED <<useDB, monVars, found, interpolated, clients, msgLock, metrics, dbVars, frames, sub, lastSub, msgs, closes, prodVars>>

\* a request to /ws that carries no key and no secret header
Upgrade(c) == UpgradeWith(c, NoHeaders)

\* conn.ReadJSON(&subscription) returns a subscription naming channel ch
ReadSubscription(c, ch) ==
    /\ cpc[c] = "readSub"
    /\ sock[c] = "open"
    /\ sub' = [sub EXCEPT ![c] = ch]
    /\ lastSub' = [lastSub EXCEPT ![c] = ch]
    /\ cpc' = [cpc EXCEPT ![c] = "register"]
    /\ UNCHANGED <<useDB, monVars, hdr, found, interpolated, clients, msgLock, metrics, dbVars, sock, frames, msgs, closes, prodVars>>

\* a handler that writes the error frame and goes on to the registration
ReadSubscriptionFailsAndRegisters(c) ==
    /\ cpc[c] = "readSub"
    /\ sock[c] \in {"open", "closed"}
    /\ frames' = WriteJSON(c, ErrorFrame)
    /\ cpc' = [cpc EXCEPT ![c] = "register"]
    /\ UNCHANGED <<useDB, monVars, hdr, found, interpolated, clients, msgLock, metrics, dbVars, sock, sub, lastSub, msgs, closes, prodVars>>

\* conn.ReadJSON fails (bad message, or the peer is gone): error frame, return, conn.Close()
ReadSubscriptionFails(c) ==
    /\ cpc[c] = "readSub"
    /\ sock[c] \in {"open", "closed"}
    /\ frames' = WriteJSON(c, ErrorFrame)
    /\ sock' = [sock EXCEPT ![c] = "closed"]
    /\ cpc' = [cpc EXCEPT ![c] = "done"]
    /\ UNCHANGED <<useDB, monVars, hdr, found, interpolated, clients, msgLock, metrics, dbVars, sub, lastSub, msgs, closes, prodVars>>

\* msgLock.Lock(); clients[conn] = subscription.Channel; msgLock.Unlock()
RegisteredClients(c) == (c :> sub[c]) @@ clients

Register(c) ==
    /\ cpc[c] = "register"
    /\ msgLock = "free"
    /\ clients' = RegisteredClients(c)
    /\ cpc' = [cpc EXCEPT ![c] = "regMetrics"]
    /\ UNCHANGED <<useDB, monVars, hdr, found, interpolated, msgLock, metrics, dbVars, sock, frames, sub, lastSub, msgs, closes, prodVars>>

\* metricsLock section after the registration; len(clients) is read without msgLock
RegisterMetrics(c) ==
    /\ cpc[c] = "regMetrics"
    /\ metricsLock = {}
    /\ metrics' = [metrics EXCEPT !.TotalConnections = @ + 1,
                                  !.ActiveConnections = Cardinality(DOMAIN clients)]
    /\ cpc' = [cpc EXCEPT ![c] = "confirm"]
    /\ UNCHANGED <<useDB, monVars, hdr, found, interpolated, clients, msgLock, dbVars, sock, frames, sub, lastSub, msgs, closes, prodVars>>

\* conn.WriteJSON(confirmation); its error is ignored
Confirm(c) ==
    /\ cpc[c] = "confirm"
    /\ sock[c] # "stalled"
    /\ frames' = WriteJSON(c, Confirmation(sub[c]))
    /\ cpc' = [cpc EXCEPT ![c] = "readLoop"]
    /\ UNCHANGED <<useDB, monVars, hdr, found, interpolated, clients, msgLock, metrics, dbVars, sock, sub, lastSub, msgs, closes, prodVars>>

\* the registry after the read loop has read a message: the message is dropped
RebindOnMessage(c, ch) == IF c \in DOMAIN clients THEN (c :> ch) @@ clients ELSE clients

AfterMessage(c, ch) == clients

\* conn.ReadMessage returns a message, here another subscription message
ReadMessage(c, ch) ==
    /\ cpc[c] = "readLoop"
    /\ sock[c] = "open"
    /\ msgs < MaxMsgs
    /\ msgs' = msgs + 1
    /\ lastSub' = [lastSub EXCEPT ![c] = ch]
    /\ clients' = AfterMessage(c, ch)
    /\ UNCHANGED <<useDB, monVars, hdr, found, interpolated, msgLock, metrics, dbVars, sock, frames, cpc, sub, closes, prodVars>>

\* conn.ReadMessage returns an error: the handler goes to unregister
ReadMessageFails(c) ==
    /\ cpc[c] = "readLoop"
    /\ sock[c] = "closed"
    /\ cpc' = [cpc EXCEPT ![c] = "unregister"]
    /\ UNCHANGED <<useDB, monVars, hdr, found, interpolated, clients, msgLock, metrics, dbVars, sock, frames, sub, lastSub, msgs, closes, prodVars>>

\* msgLock.Lock(); delete(clients, conn); msgLock.Unlock()
StillRegisteredClients(c) == clients

UnregisteredClients(c) == [d \in DOMAIN clients \ {c} |-> clients[d]]

Unregister(c) ==
    /\ cpc[c] = "unregister"
    /\ msgLock = "free"
    /\ clients' = UnregisteredClients(c)
    /\ cpc' = [cpc EXCEPT ![c] = "unregMetrics"]
    /\ UNCHANGED <<useDB, monVars, hdr, found, interpolated, msgLock, metrics, dbVars, sock, frames, sub, lastSub, msgs, closes, prodVars>>

\* metricsLock section after the removal, then break and return (conn.Close() is deferred)
UnregisterMetrics(c) ==
    /\ cpc[c] = "unregMetrics"
    /\ metricsLock = {}
    /\ metrics' = [metrics EXCEPT !.ActiveConnections = Cardinality(DOMAIN clients)]
    /\ cpc' = [cpc EXCEPT ![c] = "done"]
    /\ UNCHANGED <<useDB, monVars, hdr, found, interpolated, clients, msgLock, dbVars, sock, frames, sub, lastSub, msgs, closes, prodVars>>

(***************************************************************************)
(* The peer of a connection                                                *)
(***************************************************************************)
\* the peer closes or the network breaks: reads and writes fail from now on
PeerCloses(c) ==
    /\ sock[c] \in {"open", "stalled"}
    /\ closes < MaxCloses
    /\ closes' = closes + 1
    /\ sock' = [sock EXCEPT ![c] = "closed"]
    /\ UNCHANGED <<useDB, monVars, hdr, found, interpolated, clients, msgLock, metrics, dbVars, frames, cpc, sub, lastSub, msgs, prodVars>>

\* the peer stops reading and sending: writes to it do not complete
PeerStalls(c) ==
    /\ sock[c] = "open"
    /\ Cardinality({d \in Conns : sock[d] = "stalled"}) < MaxStalls
    /\ sock' = [sock EXCEPT ![c] = "stalled"]
    /\ UNCHANGED <<useDB, monVars, hdr, found, interpolated, clients, msgLock, metrics, dbVars, frames, cpc, sub, lastSub, msgs, closes, prodVars>>

(***************************************************************************)
(* The database: each statement is one atomic step of the server.          *)
(***************************************************************************)
Digit(d) ==
    CASE d = 0 -> "0" [] d = 1 -> "1" [] d = 2 -> "2" [] d = 3 -> "3" [] d = 4 -> "4"
      [] d = 5 -> "5" [] d = 6 -> "6" [] d = 7 -> "7" [] d = 8 -> "8" [] OTHER -> "9"

RECURSIVE Itoa(_)
Itoa(n) == IF n < 10 THEN Digit(n) ELSE Itoa(n \div 10) \o Digit(n % 10)

\* a payload value as the driver stores it in a TEXT column
ToText(v) == IF v.kind = "number" THEN Itoa(v.num) ELSE v.str

\* an ensureTable and saveToDB that make a column of every key of data
DynamicFieldsAll(data) == DOMAIN data

\* the keys of data that ensureTable and saveToDB turn into columns
DynamicFields(data) == DOMAIN data \ BaseColumns

\* `"` + name + `"`: a name is put into the text of a statement between double quotes
Quote == "\""
QuoteIdent(name) == Quote \o name \o Quote

\* the database reads a quoted identifier up to the next double quote: the text stands
\* for the name that was put in when it is not empty and holds no double quote itself
\* (a name with a double quote ends the identifier early: the rest is read as SQL)
ParsesAsIdent(q) ==
    /\ Len(q) > 2
    /\ \A i \in 2..(Len(q) - 1) : SubSeq(q, i, i) # Quote

\* the statement with these names in it is the one the code means to send
NamesParse(names) == \A name \in names : ParsesAsIdent(QuoteIdent(name))

\* CREATE TABLE IF NOT EXISTS "channel" (base columns, one TEXT column per field)
CreateTableStrict(t, channel, fields) ==
    IF channel \in DOMAIN t
    THEN [err |-> "relation_exists", tables |-> t]
    ELSE [err |-> "none", tables |-> (channel :> (BaseColumns \cup fields)) @@ t]

CreateTableIfNotExists(t, channel, fields) ==
    IF ~NamesParse({channel} \cup fields) THEN [err |-> "syntax_error", tables |-> t]
    ELSE IF channel \in DOMAIN t
    THEN [err |-> "none", tables |-> t]
    ELSE [err |-> "none", tables |-> (channel :> (BaseColumns \cup fields)) @@ t]

\* SELECT EXISTS (... information_schema.columns WHERE table_name = $1 AND column_name = $2)
ColumnExists(t, channel, column) == channel \in DOMAIN t /\ column \in t[channel]

\* ALTER TABLE "channel" ADD COLUMN "column" TEXT
AddColumnOnly(t, channel, column) ==
    IF channel \notin DOMAIN t THEN [err |-> "undefined_table", tables |-> t]
    ELSE [err |-> "none", tables |-> [t EXCEPT ![channel] = BaseColumns \cup {column}]]

AddColumn(t, channel, column) ==
    IF ~NamesParse({channel, column}) THEN [err |-> "syntax_error", tables |-> t]
    ELSE IF channel \notin DOMAIN t THEN [err |-> "undefined_table", tables |-> t]
    ELSE IF column \in t[channel] THEN [err |-> "duplicate_column", tables |-> t]
    ELSE [err |-> "none", tables |-> [t EXCEPT ![channel] = @ \cup {column}]]

\* the row saveToDB inserts: "event", one text per dynamic field (created_at is not modelled)
NewRowEventOnly(r, n) == [id |-> Len(r) + 1, event |-> n.event, fields |-> <<>>]

NewRow(r, n) ==
    [id |-> Len(r) + 1, event |-> n.event,
     fields |-> [f \in DynamicFields(n.data) |-> ToText(n.data[f])]]

\* INSERT INTO "channel" ("event", fields..., created_at) VALUES (...)
InsertNothing(t, r, n) == [err |-> "none", rows |-> r]

Insert(t, r, n) ==
    IF ~NamesParse({n.channel} \cup DynamicFields(n.data)) THEN [err |-> "syntax_error", rows |-> r]
    ELSE IF n.channel \notin DOMAIN t THEN [err |-> "undefined_table", rows |-> r]
    ELSE IF ~(DynamicFields(n.data) \cup {"event", "created_at"} \subseteq t[n.channel])
    THEN [err |-> "undefined_column", rows |-> r]
    ELSE [err |-> "none",
          rows |-> [d \in DOMAIN r \cup {n.channel} |->
                      IF d = n.channel
                      THEN Append(IF d \in DOMAIN r THEN r[d] ELSE <<>>,
                                  NewRow(IF d \in DOMAIN r THEN r[d] ELSE <<>>, n))
                      ELSE r[d]]]

(***************************************************************************)
(* sendNotification, saveToDB and ensureTable                              *)
(***************************************************************************)
\* a statement fails when the storage fails, or with the statement's own error
StmtErr(fail, err) == IF fail THEN "storage_error" ELSE err

\* where sendNotification goes after saveToDB: on an error it answers 500 and returns
BroadcastAnyway(err) == [pc |-> "lock", status |-> IF err = "none" THEN 0 ELSE 500]

AfterSave(err) ==
    IF err # "none" THEN [pc |-> "idle", status |-> 500] ELSE [pc |-> "lock", status |-> 0]

\* an error of ensureTable or of the insert leaves saveToDB and reaches sendNotification
SaveGoesOn(p, e) ==
    /\ resp' = [resp EXCEPT ![p] = NoResp]
    /\ ppc' = [ppc EXCEPT ![p] = "lock"]

SaveFailed(p, e) ==
    /\ resp' = [resp EXCEPT ![p] = [status |-> AfterSave(e).status, error |-> e]]
    /\ ppc' = [ppc EXCEPT ![p] = AfterSave(e).pc]

\* a saveToDB that returns nil without the INSERT once ensureTable has returned
LoopNextSkipsInsert(fs) == IF fs = {} THEN "lock" ELSE "chkCol"

\* the second range loop of ensureTable goes on, or ensureTable returns nil to saveToDB
LoopNext(fs) == IF fs = {} THEN "insert" ELSE "chkCol"

\* the requests issued so far
RECURSIVE SumCalls(_)
SumCalls(ps) == IF ps = {} THEN 0 ELSE LET q == CHOOSE x \in ps : TRUE IN call[q] + SumCalls(ps \ {q})

Requests == SumCalls(Producers)

\* a key of a JSON object, or the zero value of the struct field the object has no key for
Field(b, k, zero) == IF k \in DOMAIN b THEN b[k] ELSE zero

validCredentials == [key |-> "key", secret |-> "secret"]

\* authenticate: TRUE when it calls c.Next(), FALSE when it answers 401 and aborts
authenticateKeyOnly(h) == ~(h.key # validCredentials.key)

authenticate(h) == ~(h.key # validCredentials.key \/ h.secret # validCredentials.secret)

\* c.ShouldBindJSON(&notif): a body that is not a JSON object of the right shape is an
\* error; no field of Notification is required, so a missing key leaves the zero value
BindAnything(b) ==
    [ok |-> TRUE, notif |-> [channel |-> Field(b, "channel", ""), event |-> Field(b, "event", ""),
                             data |-> Field(b, "data", <<>>)]]

ShouldBindJSON(b) ==
    IF "malformed" \in DOMAIN b
    THEN [ok |-> FALSE, notif |-> NoNotif]
    ELSE [ok |-> TRUE, notif |-> [channel |-> Field(b, "channel", ""), event |-> Field(b, "event", ""),
                                  data |-> Field(b, "data", <<>>)]]

\* a sendNotification that calls saveToDB whatever useDB says
sendNotificationSaves(p, b) ==
    IF ~ShouldBindJSON(b).ok
    THEN /\ resp' = [resp EXCEPT ![p] = [status |-> 400, error |-> "Invalid input"]]
         /\ UNCHANGED <<ppc, notif, fieldsTodo>>
    ELSE /\ resp' = [resp EXCEPT ![p] = NoResp]
         /\ notif' = [notif EXCEPT ![p] = ShouldBindJSON(b).notif]
         /\ fieldsTodo' = [fieldsTodo EXCEPT ![p] = DynamicFields(ShouldBindJSON(b).notif.data)]
         /\ ppc' = [ppc EXCEPT ![p] = "create"]

\* sendNotification up to saveToDB (the database in use) or broadcastNotification
sendNotification(p, b) ==
    IF ~ShouldBindJSON(b).ok
    THEN /\ resp' = [resp EXCEPT ![p] = [status |-> 400, error |-> "Invalid input"]]
         /\ UNCHANGED <<ppc, notif, fieldsTodo>>
    ELSE /\ resp' = [resp EXCEPT ![p] = NoResp]
         /\ notif' = [notif EXCEPT ![p] = ShouldBindJSON(b).notif]
         /\ fieldsTodo' = [fieldsTodo EXCEPT ![p] = DynamicFields(ShouldBindJSON(b).notif.data)]
         /\ ppc' = [ppc EXCEPT ![p] = IF useDB THEN "create" ELSE "lock"]

\* POST /notification with the headers h and the body b: authenticate, which answers 401
\* and aborts or calls sendNotification
PostNotification(p, h, b) ==
    /\ ppc[p] = "idle"
    /\ call[p] < MaxSends
    /\ Requests < MaxRequests
    /\ call' = [call EXCEPT ![p] = @ + 1]
    /\ hdr' = [hdr EXCEPT ![p] = h]
    /\ body' = [body EXCEPT ![p] = b]
    /\ IF authenticate(h)
       THEN sendNotification(p, b)
       ELSE /\ resp' = [resp EXCEPT ![p] = [status |-> 401, error |-> "Unauthorized"]]
            /\ UNCHANGED <<ppc, notif, fieldsTodo>>
    /\ UNCHANGED <<useDB, monVars, found, interpolated, clients, msgLock, metrics, dbVars, connVars, cur, eventExists,
                   todo, successCount, failedCount, attempted, failedTo, dispatched, returned, returnedBefore>>

\* sendNotification, reached by a request that presents the credentials
SendNotification(p, b) == PostNotification(p, validCredentials, b)

\* ensureTable: dbConn.Exec(CREATE TABLE IF NOT EXISTS ...)
EnsureCreate(p, fail) ==
    /\ ppc[p] = "create"
    /\ interpolated' = interpolated \cup {notif[p].channel} \cup DynamicFields(notif[p].data)
    /\ LET r == CreateTableIfNotExists(tables, notif[p].channel, DynamicFields(notif[p].data))
           e == StmtErr(fail, r.err)
       IN IF e # "none"
          THEN SaveFailed(p, e) /\ UNCHANGED tables
          ELSE /\ tables' = r.tables
               /\ ppc' = [ppc EXCEPT ![p] = "chkEvent"]
               /\ UNCHANGED resp
    /\ UNCHANGED <<useDB, monVars, hdr, found, clients, msgLock, metrics, rows, connVars, body, notif, call, fieldsTodo,
                   cur, eventExists, todo, successCount, failedCount, attempted, failedTo, dispatched, returned, returnedBefore>>

\* ensureTable: the query whether the event column exists
EnsureCheckEvent(p, fail) ==
    /\ ppc[p] = "chkEvent"
    /\ IF fail
       THEN SaveFailed(p, "storage_error") /\ UNCHANGED eventExists
       ELSE /\ eventExists' = [eventExists EXCEPT ![p] = ColumnExists(tables, notif[p].channel, "event")]
            /\ ppc' = [ppc EXCEPT ![p] = IF eventExists'[p] THEN LoopNext(fieldsTodo[p]) ELSE "altEvent"]
            /\ UNCHANGED resp
    /\ UNCHANGED <<useDB, monVars, hdr, found, interpolated, clients, msgLock, metrics, dbVars, connVars, body, notif, call, fieldsTodo,
                   cur, todo, successCount, failedCount, attempted, failedTo, dispatched, returned, returnedBefore>>

\* ensureTable: dbConn.Exec(ALTER TABLE ... ADD COLUMN "event" TEXT)
EnsureAlterEvent(p, fail) ==
    /\ ppc[p] = "altEvent"
    /\ interpolated' = interpolated \cup {notif[p].channel}
    /\ LET r == AddColumn(tables, notif[p].channel, "event")
           e == StmtErr(fail, r.err)
       IN IF e # "none"
          THEN SaveFailed(p, e) /\ UNCHANGED tables
          ELSE /\ tables' = r.tables
               /\ ppc' = [ppc EXCEPT ![p] = LoopNext(fieldsTodo[p])]
               /\ UNCHANGED resp
    /\ UNCHANGED <<useDB, monVars, hdr, found, clients, msgLock, metrics, rows, connVars, body, notif, call, fieldsTodo,
                   cur, eventExists, todo, successCount, failedCount, attempted, failedTo, dispatched, returned, returnedBefore>>

\* ensureTable: the loop takes field f and queries whether its column exists
EnsureCheckColumn(p, f, fail) ==
    /\ ppc[p] = "chkCol"
    /\ f \in fieldsTodo[p]
    /\ IF fail
       THEN SaveFailed(p, "storage_error") /\ UNCHANGED <<fieldsTodo, cur>>
       ELSE /\ cur' = [cur EXCEPT ![p] = f]
            /\ IF ColumnExists(tables, notif[p].channel, f)
               THEN /\ fieldsTodo' = [fieldsTodo EXCEPT ![p] = @ \ {f}]
                    /\ ppc' = [ppc EXCEPT ![p] = LoopNext(fieldsTodo'[p])]
               ELSE /\ ppc' = [ppc EXCEPT ![p] = "altCol"]
                    /\ UNCHANGED fieldsTodo
            /\ UNCHANGED resp
    /\ UNCHANGED <<useDB, monVars, hdr, found, interpolated, clients, msgLock, metrics, dbVars, connVars, body, notif, call,
                   eventExists, todo, successCount, failedCount, attempted, failedTo, dispatched, returned, returnedBefore>>

\* ensureTable: dbConn.Exec(ALTER TABLE ... ADD COLUMN "field" TEXT) for the current field
EnsureAlterColumn(p, fail) ==
    /\ ppc[p] = "altCol"
    /\ interpolated' = interpolated \cup {notif[p].channel, cur[p]}
    /\ LET r == AddColumn(tables, notif[p].channel, cur[p])
           e == StmtErr(fail, r.err)
       IN IF e # "none"
          THEN SaveFailed(p, e) /\ UNCHANGED <<tables, fieldsTodo>>
          ELSE /\ tables' = r.tables
               /\ fieldsTodo' = [fieldsTodo EXCEPT ![p] = @ \ {cur[p]}]
               /\ ppc' = [ppc EXCEPT ![p] = LoopNext(fieldsTodo'[p])]
               /\ UNCHANGED resp
    /\ UNCHANGED <<useDB, monVars, hdr, found, clients, msgLock, metrics, rows, connVars, body, notif, call,
                   cur, eventExists, todo, successCount, failedCount, attempted, failedTo, dispatched, returned, returnedBefore>>

\* saveToDB: dbConn.Exec(INSERT ...), then back in sendNotification
SaveInsert(p, fail) ==
    /\ ppc[p] = "insert"
    /\ interpolated' = interpolated \cup {notif[p].channel} \cup DynamicFields(notif[p].data)
    /\ LET r == Insert(tables, rows, notif[p])
           e == StmtErr(fail, r.err)
       IN /\ rows' = IF e = "none" THEN r.rows ELSE rows
          /\ SaveFailed(p, e)
    /\ UNCHANGED <<useDB, monVars, hdr, found, clients, msgLock, metrics, tables, connVars, body, notif, call, fieldsTodo,
                   cur, eventExists, todo, successCount, failedCount, attempted, failedTo, dispatched, returned, returnedBefore>>

(***************************************************************************)
(* broadcastNotification                                                   *)
(***************************************************************************)
\* the frame a notification is written as (by: the request it comes from)
NotifFrame(p) == [notification |-> notif[p], by |-> <<p, call[p]>>]

\* if channel == notif.Channel
MatchesAny(channel, n) == TRUE
MatchesOthers(channel, n) == channel # n.channel

Matches(channel, n) == channel = n.channel

\* the entries the range loop still visits after it has handled c (ok: the write's result)
RestRevisits(rest, c, written, ok) == IF written /\ ok THEN rest ELSE rest \ {c}

RestAbortOnFailure(rest, c, written, ok) == IF written /\ ~ok THEN {} ELSE rest \ {c}

Rest(rest, c, written, ok) == rest \ {c}

\* msgLock.Lock(); the range loop starts over the registry
BroadcastLock(p) ==
    /\ ppc[p] = "lock"
    /\ msgLock = "free"
    /\ msgLock' = p
    /\ todo' = [todo EXCEPT ![p] = DOMAIN clients]
    /\ successCount' = [successCount EXCEPT ![p] = 0]
    /\ failedCount' = [failedCount EXCEPT ![p] = 0]
    /\ attempted' = [attempted EXCEPT ![p] = {}]
    /\ failedTo' = [failedTo EXCEPT ![p] = {}]
    /\ dispatched' = [dispatched EXCEPT ![p] = call[p]]
    /\ returnedBefore' = [returnedBefore EXCEPT ![p] = (call[p] :> returned) @@ @]
    /\ ppc' = [ppc EXCEPT ![p] = "sweep"]
    /\ UNCHANGED <<useDB, monVars, hdr, found, interpolated, clients, metrics, dbVars, connVars, body, notif, call, fieldsTodo, cur,
                   eventExists, returned, resp>>

\* one iteration of the range loop, on the entry of connection c
SweepStep(p, c) ==
    /\ ppc[p] = "sweep"
    /\ c \in todo[p]
    /\ LET written == Matches(clients[c], notif[p])
           ok == WriteOk(c)
       IN /\ written => sock[c] # "stalled"
          /\ frames' = IF written THEN WriteJSON(c, NotifFrame(p)) ELSE frames
          /\ successCount' = [successCount EXCEPT ![p] = IF written /\ ok THEN @ + 1 ELSE @]
          /\ failedCount' = [failedCount EXCEPT ![p] = IF written /\ ~ok THEN @ + 1 ELSE @]
          /\ attempted' = [attempted EXCEPT ![p] = IF written THEN @ \cup {c} ELSE @]
          /\ failedTo' = [failedTo EXCEPT ![p] = IF written /\ ~ok THEN @ \cup {c} ELSE @]
          /\ todo' = [todo EXCEPT ![p] = Rest(@, c, written, ok)]
    /\ UNCHANGED <<useDB, monVars, hdr, found, interpolated, clients, msgLock, metrics, dbVars, sock, cpc, sub, lastSub, msgs, closes,
                   ppc, body, notif, call, fieldsTodo, cur, eventExists, dispatched, returned, returnedBefore, resp>>

\* a metrics section that counts every attempted write as sent
BroadcastDoneCountsAttempts(p) ==
    /\ ppc[p] = "sweep"
    /\ todo[p] = {}
    /\ metricsLock = {}
    /\ metrics' = [metrics EXCEPT
          !.TotalMessagesSent = @ + successCount[p] + failedCount[p],
          !.TotalMessagesFailed = @ + failedCount[p],
          !.MessagesByChannel =
              (notif[p].channel :>
                  ((IF notif[p].channel \in DOMAIN @ THEN @[notif[p].channel] ELSE 0)
                   + successCount[p])) @@ @]
    /\ msgLock' = "free"
    /\ resp' = [resp EXCEPT ![p] = [status |-> 200, error |-> "none"]]
    /\ returned' = returned \cup {<<p, call[p]>>}
    /\ ppc' = [ppc EXCEPT ![p] = "idle"]
    /\ UNCHANGED <<useDB, monVars, hdr, found, interpolated, clients, dbVars, connVars, body, notif, call, fieldsTodo, cur,
                   eventExists, todo, successCount, failedCount, attempted, failedTo, dispatched,
                   returnedBefore>>

\* a metrics section that leaves MessagesByChannel alone
BroadcastDoneTotalsOnly(p) ==
    /\ ppc[p] = "sweep"
    /\ todo[p] = {}
    /\ metricsLock = {}
    /\ metrics' = [metrics EXCEPT
          !.TotalMessagesSent = @ + successCount[p],
          !.TotalMessagesFailed = @ + failedCount[p]]
    /\ msgLock' = "free"
    /\ resp' = [resp EXCEPT ![p] = [status |-> 200, error |-> "none"]]
    /\ returned' = returned \cup {<<p, call[p]>>}
    /\ ppc' = [ppc EXCEPT ![p] = "idle"]
    /\ UNCHANGED <<useDB, monVars, hdr, found, interpolated, clients, dbVars, connVars, body, notif, call, fieldsTodo, cur,
                   eventExists, todo, successCount, failedCount, attempted, failedTo, dispatched,
                   returnedBefore>>

\* the loop is over: the metrics section, msgLock.Unlock() (deferred), and the 200 answer
BroadcastDone(p) ==
    /\ ppc[p] = "sweep"
    /\ todo[p] = {}
    /\ metricsLock = {}
    /\ metrics' = [metrics EXCEPT
          !.TotalMessagesSent = @ + successCount[p],
          !.TotalMessagesFailed = @ + failedCount[p],
          !.MessagesByChannel =
              (notif[p].channel :>
                  ((IF notif[p].channel \in DOMAIN @ THEN @[notif[p].channel] ELSE 0)
                   + successCount[p])) @@ @]
    /\ msgLock' = "free"
    /\ resp' = [resp EXCEPT ![p] = [status |-> 200, error |-> "none"]]
    /\ returned' = returned \cup {<<p, call[p]>>}
    /\ ppc' = [ppc EXCEPT ![p] = "idle"]
    /\ UNCHANGED <<useDB, monVars, hdr, found, interpolated, clients, dbVars, connVars, body, notif, call, fieldsTodo, cur,
                   eventExists, todo, successCount, failedCount, attempted, failedTo, dispatched,
                   returnedBefore>>

(***************************************************************************)
(* The database: a SELECT with conditions on the columns of a table.       *)
(* Payload columns are TEXT, and a bound parameter is compared as text.    *)
(***************************************************************************)
Null == [kind |-> "null", str |-> "", num |-> 0]

\* the characters of the model's texts in byte order (the order of collation "C")
Ascii == "\"%-0123456789ABCDEFGHIJKLMNOPQRSTUVWXYZ_abcdefghijklmnopqrstuvwxyz"
Code(ch) == CHOOSE i \in 1..Len(Ascii) : SubSeq(Ascii, i, i) = ch

RECURSIVE TextLess(_, _)
TextLess(a, b) ==
    IF b = "" THEN FALSE
    ELSE IF a = "" THEN TRUE
    ELSE IF Head(a) = Head(b) THEN TextLess(Tail(a), Tail(b))
    ELSE Code(Head(a)) < Code(Head(b))

\* a LIKE pattern: % stands for any text, _ for one character
RECURSIVE Like(_, _)
Like(text, pat) ==
    IF pat = "" THEN text = ""
    ELSE IF Head(pat) = "%" THEN Like(text, Tail(pat)) \/ (text # "" /\ Like(Tail(text), pat))
    ELSE text # "" /\ (Head(pat) = "_" \/ Head(pat) = Head(text)) /\ Like(Tail(text), Tail(pat))

RECURSIVE ToLower(_)
ToLower(text) ==
    IF text = "" THEN ""
    ELSE (IF Code(Head(text)) \in Code("A")..Code("Z")
          THEN SubSeq(Ascii, Code(Head(text)) + 27, Code(Head(text)) + 27)
          ELSE Head(text)) \o ToLower(Tail(text))

\* a condition of the database between two texts
CompareText(op, v, a) ==
    CASE op = "=" -> v = a
      [] op = "!=" -> v # a
      [] op = "<" -> TextLess(v, a)
      [] op = ">" -> TextLess(a, v)
      [] op = "<=" -> ~TextLess(a, v)
      [] op = ">=" -> ~TextLess(v, a)
      [] op = "LIKE" -> Like(v, a)
      [] OTHER -> Like(ToLower(v), ToLower(a))

\* the text of a parameter read as an integer (for the id column)
IsDigits(text) == text # "" /\ \A i \in 1..Len(text) : Code(SubSeq(text, i, i)) \in Code("0")..Code("9")

RECURSIVE Atoi(_)
Atoi(text) ==
    IF text = "" THEN 0
    ELSE 10 * Atoi(SubSeq(text, 1, Len(text) - 1)) + (Code(SubSeq(text, Len(text), Len(text))) - Code("0"))

CompareInt(op, n, m) ==
    CASE op = "=" -> n = m
      [] op = "!=" -> n # m
      [] op = "<" -> n < m
      [] op = ">" -> n > m
      [] op = "<=" -> n <= m
      [] OTHER -> n >= m

\* the name a quoted identifier stands for
Unquote(q) == SubSeq(q, 2, Len(q) - 1)

\* the value of a column in a stored row: a payload column the row has no value for is NULL
ColumnValue(row, column) ==
    IF column = "id" THEN Num(row.id)
    ELSE IF column = "event" THEN Str(row.event)
    ELSE IF column \in DOMAIN row.fields THEN Str(row.fields[column])
    ELSE Null

\* the error of a condition the database cannot type: id is an integer, created_at a
\* timestamp (no value of the model is one), every other column is TEXT
ConditionErr(cond, args) ==
    LET column == Unquote(cond.column)
        text == ToText(args[cond.param])
    IN IF column \notin {"id", "created_at"} THEN "none"
       ELSE IF cond.op \in {"LIKE", "ILIKE"} THEN "undefined_function"
       ELSE IF column = "created_at" THEN "invalid_datetime_format"
       ELSE IF ~IsDigits(text) THEN "invalid_text_representation"
       ELSE "none"

\* whether a row satisfies a condition (a comparison with NULL does not hold)
Holds(row, cond, args) ==
    LET v == ColumnValue(row, Unquote(cond.column))
        text == ToText(args[cond.param])
    IN CASE v.kind = "null" -> FALSE
         [] v.kind = "number" -> CompareInt(cond.op, v.num, Atoi(text))
         [] OTHER -> CompareText(cond.op, v.str, text)

\* ORDER BY id DESC LIMIT n over rows in id order
FirstRows(rs, n) == SubSeq(rs, 1, IF Len(rs) < n THEN Len(rs) ELSE n)

NewestFirst(rs, n) ==
    [i \in 1..(IF Len(rs) < n THEN Len(rs) ELSE n) |-> rs[Len(rs) + 1 - i]]

\* a row as SELECT * returns it (created_at is not modelled)
ResultRow(columns, row) == [column \in columns \ {"created_at"} |-> ColumnValue(row, column)]

\* the WHERE clause: the conditions joined by " AND " (no clause when there is none)
WhereAny(row, q) ==
    q.conditions = <<>> \/ \E i \in DOMAIN q.conditions : Holds(row, q.conditions[i], q.args)

Where(row, q) == \A i \in DOMAIN q.conditions : Holds(row, q.conditions[i], q.args)

\* dbConn.Query(query, args...)
ExecQuery(t, r, q) ==
    LET columns == {q.conditions[i].column : i \in DOMAIN q.conditions}
        relation == Unquote(q.relation)
        errs == {ConditionErr(q.conditions[i], q.args) : i \in DOMAIN q.conditions} \ {"none"}
    IN IF ~(\A name \in {q.relation} \cup columns : ParsesAsIdent(name))
       THEN [err |-> "syntax_error", rows |-> <<>>]
       ELSE IF relation \notin DOMAIN t THEN [err |-> "undefined_table", rows |-> <<>>]
       ELSE IF ~({Unquote(c) : c \in columns} \subseteq t[relation])
       THEN [err |-> "undefined_column", rows |-> <<>>]
       ELSE IF errs # {} THEN [err |-> CHOOSE e \in errs : TRUE, rows |-> <<>>]
       ELSE [err |-> "none",
             rows |-> LET all == IF relation \in DOMAIN r THEN r[relation] ELSE <<>>
                          sel == SelectSeq(all, LAMBDA row : Where(row, q))
                      IN [i \in DOMAIN NewestFirst(sel, q.limit) |->
                              ResultRow(t[relation], NewestFirst(sel, q.limit)[i])]]

(***************************************************************************)
(* searchHandler                                                           *)
(***************************************************************************)
allowedOperatorsAndEquals ==
    ("=" :> "=") @@ ("==" :> "=") @@ ("!=" :> "!=") @@ (">" :> ">") @@ ("<" :> "<")
    @@ (">=" :> ">=") @@ ("<=" :> "<=") @@ ("like" :> "LIKE") @@ ("ilike" :> "ILIKE")

allowedOperators ==
    ("==" :> "=") @@ ("!=" :> "!=") @@ (">" :> ">") @@ ("<" :> "<") @@ (">=" :> ">=")
    @@ ("<=" :> "<=") @@ ("like" :> "LIKE") @@ ("ilike" :> "ILIKE")

\* ORDER BY id DESC LIMIT 100
SearchLimit == 100

\* the range loop over req.Filters: it stops at the first filter whose op is not allowed
RECURSIVE BuildConditionsInline(_, _, _)
BuildConditionsInline(filters, conditions, args) ==
    IF filters = <<>> THEN [ok |-> TRUE, op |-> "", conditions |-> conditions, args |-> args]
    ELSE IF Head(filters).op \notin DOMAIN allowedOperators
    THEN [ok |-> FALSE, op |-> Head(filters).op, conditions |-> <<>>, args |-> <<>>]
    ELSE BuildConditionsInline(Tail(filters),
             Append(conditions, [column |-> QuoteIdent(Head(filters).field),
                                 op |-> allowedOperators[Head(filters).op]
                                        \o " '" \o ToText(Head(filters).value) \o "' OR",
                                 param |-> Len(args) + 1]),
             Append(args, Head(filters).value))

RECURSIVE BuildConditions(_, _, _)
BuildConditions(filters, conditions, args) ==
    IF filters = <<>> THEN [ok |-> TRUE, op |-> "", conditions |-> conditions, args |-> args]
    ELSE IF Head(filters).op \notin DOMAIN allowedOperators
    THEN [ok |-> FALSE, op |-> Head(filters).op, conditions |-> <<>>, args |-> <<>>]
    ELSE BuildConditions(Tail(filters),
             Append(conditions, [column |-> QuoteIdent(Head(filters).field),
                                 op |-> allowedOperators[Head(filters).op],
                                 param |-> Len(args) + 1]),
             Append(args, Head(filters).value))

\* c.ShouldBindJSON(&req): a missing key leaves the zero value
BindSearch(b) ==
    IF "malformed" \in DOMAIN b
    THEN [ok |-> FALSE, req |-> [channel |-> "", filters |-> <<>>]]
    ELSE [ok |-> TRUE, req |-> [channel |-> Field(b, "channel", ""), filters |-> Field(b, "filters", <<>>)]]

Rejected(b, status, error) ==
    [request |-> b, status |-> status, error |-> error, query |-> NoQuery, data |-> <<>>]

\* a searchHandler that binds and validates the body before it looks at useDB
SearchResponseBindFirst(b) ==
    LET req == BindSearch(b).req
        built == BuildConditions(req.filters, <<>>, <<>>)
        query == [relation |-> QuoteIdent(req.channel), conditions |-> built.conditions,
                  args |-> built.args, limit |-> SearchLimit]
        res == ExecQuery(tables, rows, query)
    IN IF ~BindSearch(b).ok THEN Rejected(b, 400, "Invalid input")
       ELSE IF req.channel = "" THEN Rejected(b, 400, "Channel required")
       ELSE IF ~built.ok THEN Rejected(b, 400, "Invalid operator: " \o built.op)
       ELSE IF ~useDB THEN Rejected(b, 503, "Database not available")
       ELSE IF res.err # "none"
       THEN [request |-> b, status |-> 500, error |-> res.err, query |-> query, data |-> <<>>]
       ELSE [request |-> b, status |-> 200, error |-> "none", query |-> query, data |-> res.rows]

\* the response of searchHandler to the request body b, and the query it has run
SearchResponse(b) ==
    LET req == BindSearch(b).req
        built == BuildConditions(req.filters, <<>>, <<>>)
        query == [relation |-> QuoteIdent(req.channel), conditions |-> built.conditions,
                  args |-> built.args, limit |-> SearchLimit]
        res == ExecQuery(tables, rows, query)
    IN IF ~useDB THEN Rejected(b, 503, "Database not available")
       ELSE IF ~BindSearch(b).ok THEN Rejected(b, 400, "Invalid input")
       ELSE IF req.channel = "" THEN Rejected(b, 400, "Channel required")
       ELSE IF ~built.ok THEN Rejected(b, 400, "Invalid operator: " \o built.op)
       ELSE IF res.err # "none"
       THEN [request |-> b, status |-> 500, error |-> res.err, query |-> query, data |-> <<>>]
       ELSE [request |-> b, status |-> 200, error |-> "none", query |-> query, data |-> res.rows]

\* the text of the query: baseQuery, " WHERE " and the conditions joined by " AND " when
\* there are conditions, and " ORDER BY id DESC LIMIT 100"
ConditionText(cond) == cond.column \o " " \o cond.op \o " $" \o Itoa(cond.param)

RECURSIVE Join(_, _)
Join(texts, sep) ==
    IF texts = <<>> THEN ""
    ELSE IF Len(texts) = 1 THEN texts[1]
    ELSE texts[1] \o sep \o Join(Tail(texts), sep)

QueryText(q) ==
    "SELECT * FROM " \o q.relation
    \o (IF Len(q.conditions) > 0
        THEN " WHERE " \o Join([i \in DOMAIN q.conditions |-> ConditionText(q.conditions[i])], " AND ")
        ELSE "")
    \o " ORDER BY id DESC LIMIT " \o Itoa(q.limit)

\* the names searchHandler puts into the text of the query it runs
QueryNames(q) ==
    IF q = NoQuery THEN {}
    ELSE {Unquote(q.relation)} \cup {Unquote(q.conditions[i].column) : i \in DOMAIN q.conditions}

(***************************************************************************)
(* getNotifications                                                        *)
(***************************************************************************)
\* the orders in which the range loop over c.Request.URL.Query() can visit the keys
Orders(keys) ==
    {order \in [1..Cardinality(keys) -> keys] :
        \A i, j \in 1..Cardinality(keys) : order[i] = order[j] => i = j}

\* the response of getNotifications to the query parameters params (key -> first value),
\* its loop visiting the keys other than channel in the given order
NotificationsResponse(params, order) ==
    LET channel == Field(params, "channel", "")
        query == [relation |-> QuoteIdent(channel),
                  conditions |-> [i \in 1..Len(order) |->
                                     [column |-> QuoteIdent(order[i]), op |-> "=", param |-> i]],
                  args |-> [i \in 1..Len(order) |-> Str(params[order[i]])],
                  limit |-> SearchLimit]
        res == ExecQuery(tables, rows, query)
    IN IF ~useDB THEN Rejected(params, 503, "Database not available")
       ELSE IF channel = "" THEN Rejected(params, 400, "Channel is required")
       ELSE IF res.err # "none"
       THEN [request |-> params, status |-> 500, error |-> res.err, query |-> query, data |-> <<>>]
       ELSE [request |-> params, status |-> 200, error |-> "none", query |-> query, data |-> res.rows]

(***************************************************************************)
(* getMetrics, called by metricsAPIHandler                                 *)
(***************************************************************************)
\* updateServerStats(): metricsLock.Lock(), the ServerStats fields (they are not part of
\* the model), Unlock (deferred)
UpdateServerStats(g) ==
    /\ gpc[g] = "idle"
    /\ metricsLock = {}
    /\ gpc' = [gpc EXCEPT ![g] = "rlock"]
    /\ UNCHANGED <<useDB, metricsLock, wsStats, hdr, found, interpolated, clients, msgLock, metrics, dbVars,
                   connVars, prodVars>>

\* metricsLock.RLock(): no writer holds the lock between two steps
GetMetricsRLock(g) ==
    /\ gpc[g] = "rlock"
    /\ metricsLock' = metricsLock \cup {g}
    /\ gpc' = [gpc EXCEPT ![g] = "copy"]
    /\ UNCHANGED <<useDB, wsStats, hdr, found, interpolated, clients, msgLock, metrics, dbVars, connVars,
                   prodVars>>

\* wsStats := *metrics.WebSocketStats copies the struct: the four counters by value, and
\* the map header of MessagesByChannel, which still refers to the map of metrics
Copy(m) ==
    [byValue |-> [f \in DOMAIN m \ {"MessagesByChannel"} |-> m[f]], sharedMap |-> TRUE]

\* a getMetrics that takes msgLock for len(clients) while it holds the read lock
GetMetricsCopyUnderMsgLock(g) ==
    /\ gpc[g] = "copy"
    /\ msgLock = "free"
    /\ wsStats' = [wsStats EXCEPT ![g] = Copy(metrics)]
    /\ metricsLock' = metricsLock \ {g}
    /\ gpc' = [gpc EXCEPT ![g] = "idle"]
    /\ UNCHANGED <<useDB, hdr, found, interpolated, clients, msgLock, metrics, dbVars, connVars, prodVars>>

\* the copy, the return of &Metrics{...} and metricsLock.RUnlock() (deferred)
GetMetricsCopy(g) ==
    /\ gpc[g] = "copy"
    /\ wsStats' = [wsStats EXCEPT ![g] = Copy(metrics)]
    /\ metricsLock' = metricsLock \ {g}
    /\ gpc' = [gpc EXCEPT ![g] = "idle"]
    /\ UNCHANGED <<useDB, hdr, found, interpolated, clients, msgLock, metrics, dbVars, connVars, prodVars>>

\* what the holder of the returned *Metrics reads in its WebSocketStats
Returned(g) ==
    IF wsStats[g].sharedMap
    THEN wsStats[g].byValue @@ [MessagesByChannel |-> metrics.MessagesByChannel]
    ELSE wsStats[g].byValue

(***************************************************************************)
(* The routes of main: authenticate, then the handler                      *)
(***************************************************************************)
\* the response r to a request with headers h on a route
Served(route, h, r) == [route |-> route, headers |-> h] @@ r

\* GET /search
GetSearch(h, b) ==
    /\ found' = Served("/search", h,
                    IF authenticate(h) THEN SearchResponse(b) ELSE Rejected(b, 401, "Unauthorized"))
    /\ UNCHANGED <<useDB, monVars, hdr, clients, msgLock, metrics, dbVars, interpolated, connVars, prodVars>>

\* GET /notifications
GetNotifications(h, params, order) ==
    /\ found' = Served("/notifications", h,
                    IF authenticate(h) THEN NotificationsResponse(params, order)
                    ELSE Rejected(params, 401, "Unauthorized"))
    /\ UNCHANGED <<useDB, monVars, hdr, clients, msgLock, metrics, dbVars, interpolated, connVars, prodVars>>

\* the two handlers, reached by a request that presents the credentials
searchHandler(b) == GetSearch(validCredentials, b)

getNotifications(params, order) == GetNotifications(validCredentials, params, order)

(***************************************************************************)
(* Next-state relations and specifications                                 *)
(***************************************************************************)
\* a step of a handleWebSocket call up to its read loop, the peer staying connected
ConnOpens(c, chs) ==
    \/ Upgrade(c)
    \/ \E ch \in chs : ReadSubscription(c, ch)
    \/ Register(c)
    \/ RegisterMetrics(c)
    \/ Confirm(c)

\* a step of the handler of connection c, whose peer subscribes to a channel of chs, or
\* its peer closing
ConnStepOn(c, chs) ==
    \/ ConnOpens(c, chs)
    \/ ReadSubscriptionFails(c)
    \/ ReadMessageFails(c)
    \/ Unregister(c)
    \/ UnregisterMetrics(c)
    \/ PeerCloses(c)

ConnStep(c) == ConnStepOn(c, SubChannels)

\* the peer of connection c sends a further message, or stops reading
PeerStep(c) ==
    \/ \E ch \in SubChannels : ReadMessage(c, ch)
    \/ PeerStalls(c)

\* a step of a request of producer p outside saveToDB
SendStep(p, bodies) ==
    \/ \E b \in bodies : SendNotification(p, b)
    \/ BroadcastLock(p)
    \/ \E c \in Conns : SweepStep(p, c)
    \/ BroadcastDone(p)

\* a step of saveToDB in a request of producer p
SaveStep(p) ==
    \E fail \in BOOLEAN :
        \/ EnsureCreate(p, fail)
        \/ EnsureCheckEvent(p, fail)
        \/ EnsureAlterEvent(p, fail)
        \/ \E f \in DOMAIN notif[p].data : EnsureCheckColumn(p, f, fail)
        \/ EnsureAlterColumn(p, fail)
        \/ SaveInsert(p, fail)

\* Spec: one producer on channel orders, two clients that subscribe to it and one that
\* subscribes to another channel, the database not in use
Init == InitWith(FALSE)

Next ==
    \/ \E c \in {"w1", "w2"} : ConnStepOn(c, {"orders"})
    \/ ConnStepOn("w3", {"chat"})
    \/ SendStep("p1", BodiesOf({"orders"}))

Spec == Init /\ [][Next]_vars

\* SpecPeers: two clients whose peers also send further messages and stall, one producer
NextPeers ==
    \/ \E c \in {"w1", "w2"} : ConnStep(c) \/ PeerStep(c)
    \/ SendStep("p1", {Malformed} \cup BodiesOf({"orders"}))

SpecPeers == Init /\ [][NextPeers]_vars

\* SpecDB: the database in use, two producers, one client that stays connected
InitDB == InitWith(TRUE)

NextDB ==
    \/ \E c \in {"w1"} : ConnOpens(c, SubChannels)
    \/ \E p \in Producers : SendStep(p, NotifsOn({"orders", "legacy"})) \/ SaveStep(p)

SpecDB == InitDB /\ [][NextDB]_vars

\* SpecPair: two clients and two producers dispatching on one channel, no database
NextPair ==
    \/ \E c \in {"w1", "w2"} : ConnStep(c)
    \/ \E p \in Producers : SendStep(p, BodiesOf({"orders"}))

SpecPair == Init /\ [][NextPair]_vars

\* request bodies that are objects without a channel key, and names that hold a double quote
NoChannelBody == [event |-> "created", data |-> [sender |-> Str("c1")]]
QuoteChannelBody == [channel |-> "or\"ders", event |-> "created", data |-> [sender |-> Str("c1")]]
QuoteFieldBody == [channel |-> "orders", event |-> "created", data |-> ("na\"me" :> Str("c1"))]
\* a payload with a key that is also a base column (as in TestConcurrentNotifications)
IdFieldBody == [channel |-> "orders", event |-> "created", data |-> [id |-> Num(7), sender |-> Str("c1")]]

\* a payload whose keys include the names of the three base columns
ReservedFieldsBody(channel) ==
    [channel |-> channel, event |-> "created",
     data |-> [id |-> Num(7), created_at |-> Str("2020-01-01"), event |-> Str("forged"),
               sender |-> Str("c1")]]

\* SpecIngress: one client and one producer whose bodies may be malformed or lack the
\* channel, the database in use or not
InitEither == \E b \in BOOLEAN : InitWith(b)

NextIngress ==
    \/ \E c \in {"w1"} : ConnStepOn(c, {"", "legacy"})
    \/ SendStep("p1", {Malformed, NoChannelBody, ReservedFieldsBody("orders"), ReservedFieldsBody("legacy")}
                     \cup NotifsOn({"legacy"}))
    \/ SaveStep("p1")

SpecIngress == InitEither /\ [][NextIngress]_vars

\* the bodies of search requests
Filter(field, op, value) == [field |-> field, op |-> op, value |-> value]
RequestOps == DOMAIN allowedOperators \cup {"=", "LIKE", ""}
OnSender(op) == Filter("sender", op, Str("c1"))
FilterLists ==
    {<<>>} \cup {<<OnSender(op)>> : op \in RequestOps}
    \cup {<<OnSender("=="), OnSender("=")>>, <<OnSender("="), OnSender("==")>>,
          <<OnSender("like"), OnSender("!=")>>, <<OnSender("LIKE"), OnSender("=")>>,
          <<OnSender("=="), OnSender("!="), OnSender("LIKE")>>,
          <<OnSender("=="), OnSender("="), OnSender("!=")>>}
    \cup {<<Filter("id", ">=", Num(1))>>, <<Filter("id", "==", Str("c1"))>>,
          <<Filter("id", "like", Str("1%"))>>, <<Filter("event", "like", Str("cre%"))>>,
          <<Filter("event", "ilike", Str("CREATED")), Filter("amount", "<", Num(2))>>,
          <<Filter("na\"me", "==", Str("c1"))>>, <<Filter("color", "==", Str("c1"))>>}
\* the search for the rows of the event of notification n on its channel
RoundTrip(n) == [channel |-> n.channel, filters |-> <<Filter("event", "==", Str(n.event))>>]
SearchBodies ==
    {Malformed, [filters |-> <<>>], [channel |-> "or\"ders", filters |-> <<>>],
     [channel |-> "chat", filters |-> <<>>]}
    \cup {[channel |-> "orders", filters |-> fs] : fs \in FilterLists}
    \cup {RoundTrip(n) : n \in NotifsOn({"orders", "legacy"})}

\* SpecSearch: one producer that persists (no client is connected) and search requests,
\* the database in use or not
NextSearch ==
    \/ \E b \in {QuoteChannelBody, QuoteFieldBody, IdFieldBody} \cup NotifsOn({"orders", "legacy"}) :
           SendNotification("p1", b)
    \/ SaveStep("p1")
    \/ BroadcastLock("p1")
    \/ BroadcastDone("p1")
    \/ \E b \in SearchBodies : searchHandler(b)

SpecSearch == InitEither /\ [][NextSearch]_vars

\* the table of channel orders after n notifications were persisted: every second one
\* is "created" with an amount, the others "paid" without, every third one from sender c2
StoredRow(i) ==
    [id |-> i, event |-> IF i % 2 = 1 THEN "created" ELSE "paid",
     fields |-> IF i % 2 = 1
                THEN [sender |-> IF i % 3 = 0 THEN "c2" ELSE "c1", amount |-> Itoa(i)]
                ELSE [sender |-> IF i % 3 = 0 THEN "c2" ELSE "c1"]]
StoreSizes == {0, 3, 6, 100, 101, 205}
StoreTables == ("orders" :> (BaseColumns \cup {"sender", "amount"})) @@ LegacyTables
StoreRows(n) == ("orders" :> [i \in 1..n |-> StoredRow(i)]) @@ [t \in DOMAIN LegacyTables |-> <<>>]

InitQuery == \E b \in BOOLEAN, n \in StoreSizes : InitStore(b, StoreTables, StoreRows(n))

QueryFilterLists ==
    {<<>>,
     <<Filter("event", "==", Str("created"))>>,
     <<Filter("sender", "!=", Str("c1"))>>,
     <<Filter("amount", ">=", Num(5))>>,
     <<Filter("event", "==", Str("paid"))>>,
     <<Filter("sender", "!=", Str("c1\"--"))>>,
     <<Filter("amount", ">=", Str("5"))>>,
     <<Filter("event", "==", Str("created")), Filter("sender", "==", Str("c2"))>>,
     <<Filter("event", "==", Str("paid")), Filter("sender", "==", Str("c1\" OR \"id"))>>,
     <<Filter("sender", "==", Str("c1")), Filter("event", "==", Str("paid"))>>,
     <<Filter("event", "==", Str("created")), Filter("event", "==", Str("paid"))>>,
     <<Filter("id", ">", Num(2)), Filter("sender", "like", Str("c%")), Filter("event", "ilike", Str("PAID"))>>,
     <<Filter("id", "<=", Num(4)), Filter("amount", "<", Str("3")), Filter("sender", "!=", Str("c2"))>>}
QueryBodies ==
    {[channel |-> "orders", filters |-> fs] : fs \in QueryFilterLists}
    \cup {[channel |-> "legacy", filters |-> <<>>], [channel |-> "chat", filters |-> <<>>],
          [channel |-> "legacy", filters |-> <<Filter("event", "==", Str("created"))>>],
          [channel |-> "orders", filters |-> <<Filter("id", "==", Str("abc"))>>],
          [channel |-> "orders", filters |-> <<Filter("sender", "=", Str("c1"))>>],
          [filters |-> <<Filter("sender", "==", Str("c1"))>>], Malformed}

\* the query parameters of requests to /notifications (each key with its first value)
QueryParams ==
    {[channel |-> "orders"], [channel |-> "orders", event |-> "created"],
     [channel |-> "orders", event |-> "paid\" OR \"id"],
     [channel |-> "orders", sender |-> "c1", event |-> "paid"],
     [channel |-> "orders", sender |-> "c2", event |-> "created"],
     [channel |-> "orders", id |-> "2"], [channel |-> "orders", color |-> "red"],
     [channel |-> "chat"], [sender |-> "c1"], [channel |-> "", event |-> "paid"]}

\* SpecQuery: searches over a table that holds up to 205 rows, the database in use or not
NextQuery ==
    \/ \E b \in QueryBodies : searchHandler(b)
    \/ \E params \in QueryParams : \E order \in Orders(DOMAIN params \ {"channel"}) :
           getNotifications(params, order)

SpecQuery == InitQuery /\ [][NextQuery]_vars

\* the headers of requests: the credentials, no headers, one value wrong
Headers ==
    {validCredentials, NoHeaders, [key |-> "key", secret |-> "wrong"],
     [key |-> "wrong", secret |-> "secret"]}

\* SpecAuth: requests to /ws, /notification, /search and /notifications with any of the
\* headers, one client and one producer, the database in use or not
NextAuth ==
    \/ \E h \in Headers : UpgradeWith("w1", h)
    \/ ReadSubscription("w1", "orders")
    \/ Register("w1")
    \/ RegisterMetrics("w1")
    \/ Confirm("w1")
    \/ \E h \in Headers : \E b \in {Malformed} \cup BodiesOf({"orders", "legacy"}) : PostNotification("p1", h, b)
    \/ SaveStep("p1")
    \/ BroadcastLock("p1")
    \/ SweepStep("p1", "w1")
    \/ BroadcastDone("p1")
    \/ \E h \in Headers : \E b \in {Malformed, [channel |-> "orders", filters |-> <<>>]} : GetSearch(h, b)
    \/ \E h \in Headers : \E params \in {[channel |-> "orders"], [event |-> "created"]} :
           \E order \in Orders(DOMAIN params \ {"channel"}) : GetNotifications(h, params, order)

SpecAuth == InitEither /\ [][NextAuth]_vars

\* SpecDispatch: two producers dispatching on one channel without the database, one
\* client whose peer may stop reading or close. The scheduler runs every goroutine that
\* can take a step, and sync.Mutex hands msgLock to a goroutine that keeps waiting for
\* it (starvation mode), so a broadcast that can go on does go on.
NextDispatch ==
    \/ ConnStepOn("w1", {"orders"})
    \/ PeerStalls("w1")
    \/ \E p \in Producers : SendStep(p, BodiesOf({"orders"}))

FairDispatch ==
    \A p \in Producers :
        /\ SF_vars(BroadcastLock(p))
        /\ WF_vars(\E c \in Conns : SweepStep(p, c))
        /\ WF_vars(BroadcastDone(p))

SpecDispatch == Init /\ [][NextDispatch]_vars /\ FairDispatch

\* a step of a getMetrics call of goroutine g
GetMetricsStep(g) ==
    \/ UpdateServerStats(g)
    \/ GetMetricsRLock(g)
    \/ GetMetricsCopy(g)

\* SpecMonitor: a client, two producers and a goroutine that polls the metrics
NextMonitor ==
    \/ ConnStepOn("w1", {"orders"})
    \/ \E p \in Producers : SendStep(p, BodiesOf({"orders"}))
    \/ \E g \in Readers : GetMetricsStep(g)

SpecMonitor == Init /\ [][NextMonitor]_vars

\* SpecChannels: two producers dispatching on two channels, a client on each
NextChannels ==
    \/ ConnStepOn("w1", {"orders"})
    \/ ConnOpens("w3", {"chat"})
    \/ \E p \in Producers : SendStep(p, BodiesOf({"orders", "chat"}))

SpecChannels == Init /\ [][NextChannels]_vars

(***************************************************************************)
(* Properties                                                              *)
(***************************************************************************)
\* the connections bound to the channel of p's notification
Bound(p) == {c \in DOMAIN clients : clients[c] = notif[p].channel}

\* the connections that hold the frame of p's current request
Delivered(p) == {c \in Conns : \E i \in 1..Len(frames[c]) : frames[c][i] = NotifFrame(p)}

Sweeping(p) == ppc[p] = "sweep"
SweepOver(p) == ppc[p] = "sweep" /\ todo[p] = {}

\* C1: a sweep calls WriteJSON on exactly the connections whose binding equals
\* notif.Channel (those it has visited so far, all of them when the loop ends), on no
\* connection bound to another channel, and only those receive the frame.
C1_ExactFanout ==
    \A p \in Producers :
        Sweeping(p) =>
            /\ attempted[p] = Bound(p) \ todo[p]
            /\ Delivered(p) \subseteq Bound(p)
            /\ SweepOver(p) => attempted[p] = Bound(p)

C1_Witness ==
    \E p \in Producers :
        /\ SweepOver(p)
        /\ notif[p].channel = "orders"
        /\ Cardinality(Delivered(p)) = 2
        /\ \E c \in DOMAIN clients : clients[c] = "chat" /\ sock[c] = "open"

\* C2: when a write of a sweep has failed, the sweep still visits every entry: at the
\* end of the loop every other connection bound to the channel holds the frame, and
\* the two counters add up to the bound connections.
C2_FailureDoesNotAbortSweep ==
    \A p \in Producers :
        (SweepOver(p) /\ failedTo[p] # {}) =>
            /\ Bound(p) \ failedTo[p] \subseteq Delivered(p)
            /\ successCount[p] + failedCount[p] = Cardinality(Bound(p))

C2_Witness ==
    \E p \in Producers :
        /\ SweepOver(p)
        /\ failedTo[p] # {}
        /\ Delivered(p) # {}

\* C3: once broadcastNotification has returned, no connection whose write failed in
\* that sweep is still bound in the registry.
C3_FailedConnectionRemoved ==
    \A p \in Producers :
        (ppc[p] = "idle" /\ resp[p].status = 200) => failedTo[p] \cap DOMAIN clients = {}

\* C4 (as claimed): the binding of a registered connection is the channel named in the
\* last subscription message read from it.
C4_LastSubscriptionWins ==
    \A c \in DOMAIN clients : clients[c] = lastSub[c]

\* C4 (amended): the binding of a registered connection is the channel named in its
\* first message (subscription.Channel); messages read by the read loop leave it as it is.
C4_FirstSubscriptionKept ==
    \A c \in DOMAIN clients : clients[c] = sub[c]

C4_Witness ==
    \E c \in DOMAIN clients : msgs > 0 /\ lastSub[c] # sub[c] /\ clients[c] = sub[c]

\* C5 (as claimed): a request whose saveToDB failed still broadcasts its notification.
C5_SaveErrorStillDispatches ==
    \A p \in Producers : resp[p].status = 500 => dispatched[p] = call[p]

\* C5 (amended): a request whose saveToDB failed is answered 500 and is over: it starts
\* no broadcast and its notification is written to no connection.
C5_SaveErrorAbortsDispatch ==
    \A p \in Producers :
        resp[p].status = 500 =>
            /\ ppc[p] = "idle"
            /\ dispatched[p] # call[p]
            /\ Delivered(p) = {}

C5_Witness ==
    \E p \in Producers :
        /\ resp[p].status = 500
        /\ \E c \in DOMAIN clients : clients[c] = notif[p].channel /\ sock[c] = "open"

\* C6: no persist call fails because a column it adds was added by a concurrent call
\* in between its check and its ALTER TABLE.
C6_NoDuplicateColumnError ==
    \A p \in Producers : resp[p].error # "duplicate_column"

\* C7: no persist call is answered a "relation already exists" error, and once a
\* call's CREATE TABLE IF NOT EXISTS has returned the channel's table exists.
AfterCreate(p) == ppc[p] \in {"chkEvent", "altEvent", "chkCol", "altCol", "insert"}

C7_NoRelationExistsError ==
    \A p \in Producers :
        /\ resp[p].error # "relation_exists"
        /\ AfterCreate(p) => notif[p].channel \in DOMAIN tables

C7_Witness ==
    \E p, q \in Producers :
        /\ p # q
        /\ notif[p].channel = "orders" /\ notif[q].channel = "orders"
        /\ ppc[p] = "chkEvent" /\ ppc[q] = "chkEvent"
        /\ resp[p] = NoResp /\ resp[q] = NoResp

\* C8: a handler that wants msgLock to register or unregister never waits behind a
\* sweep that cannot go on because its write to a stalled connection does not return.
SweepBlocked(p) ==
    /\ Sweeping(p)
    /\ todo[p] # {}
    /\ \A d \in todo[p] : Matches(clients[d], notif[p]) /\ sock[d] = "stalled"

C8_NoHeadOfLineBlocking ==
    \A c \in Conns :
        cpc[c] \in {"register", "unregister"} => ~(\E p \in Producers : msgLock = p /\ SweepBlocked(p))

\* C9: the first frame written to a connection that has subscribed is the confirmation
\* of its subscription, never a notification.
C9_ConfirmationFirst ==
    \A c \in Conns :
        (sub[c] # NoChannel /\ frames[c] # <<>>) => frames[c][1] = Confirmation(sub[c])

\* C10: once the read loop has ended and the handler has deleted its entry, up to and
\* after its return, the connection is not in the registry, and a sweep in progress
\* (which took msgLock after the removal) neither has written to it nor will.
Removed(c) == cpc[c] \in {"unregMetrics", "done"}

C10_RemovedBeforeReturn ==
    \A c \in Conns :
        Removed(c) =>
            /\ c \notin DOMAIN clients
            /\ \A p \in Producers : Sweeping(p) => c \notin todo[p] \cup attempted[p]

C10_Witness ==
    \E c \in Conns, p \in Producers :
        /\ cpc[c] = "done"
        /\ sub[c] # NoChannel
        /\ SweepOver(p)
        /\ notif[p].channel = sub[c]
        /\ attempted[p] # {}

\* the frames that carry a notification, and the request a frame comes from
IsNotification(f) == "by" \in DOMAIN f
FramesBy(c, r) == {i \in 1..Len(frames[c]) : IsNotification(frames[c][i]) /\ frames[c][i].by = r}
AllRequests == Producers \X (1..MaxRequests)

\* C11: no connection holds the notification of one dispatch call twice, whatever
\* handlers register or unregister and whatever other dispatch runs meanwhile.
C11_AtMostOnce ==
    \A c \in Conns : \A i, j \in 1..Len(frames[c]) :
        /\ i < j
        /\ IsNotification(frames[c][i])
        /\ IsNotification(frames[c][j])
        => frames[c][i].by # frames[c][j].by

C11_Witness ==
    \E c, d \in Conns :
        /\ FramesBy(c, <<"p1", 1>>) # {} /\ FramesBy(c, <<"p2", 1>>) # {}
        /\ d \in DOMAIN clients /\ clients[d] = clients[c]
        /\ Cardinality(FramesBy(d, <<"p1", 1>>) \cup FramesBy(d, <<"p2", 1>>)) = 1

\* C12: when the broadcast of request a had returned before the broadcast of request b
\* on the same channel took msgLock (so before or after b was invoked), every connection
\* that holds both notifications holds a's at an earlier position than b's.
HadReturnedBefore(a, b) ==
    /\ b[2] \in DOMAIN returnedBefore[b[1]]
    /\ a \in returnedBefore[b[1]][b[2]]

C12_DispatchOrder ==
    \A c \in Conns : \A i, j \in 1..Len(frames[c]) :
        /\ IsNotification(frames[c][i])
        /\ IsNotification(frames[c][j])
        /\ HadReturnedBefore(frames[c][i].by, frames[c][j].by)
        => i < j

C12_Witness ==
    \E c \in Conns : \E a, b \in AllRequests :
        /\ HadReturnedBefore(a, b)
        /\ FramesBy(c, a) # {} /\ FramesBy(c, b) # {}

\* C13: every step that reads or writes clients is taken by a goroutine that holds
\* msgLock: the sweep holds it, Register and Unregister take it (it must be free), and
\* the two metrics sections, which read len(clients), would need it free as well.
ReadsLenClients(c) == cpc[c] \in {"regMetrics", "unregMetrics"} /\ cpc'[c] # cpc[c]

C13_ClientsOnlyUnderMsgLock ==
    [][\A c \in Conns : ReadsLenClients(c) => msgLock = "free"]_vars

\* a name made of letters, digits and underscores that does not start with a digit
IsLetter(ch) == Code(ch) \in (Code("A")..Code("Z")) \cup (Code("a")..Code("z")) \cup {Code("_")}
IsDigit(ch) == Code(ch) \in Code("0")..Code("9")
SafeIdentifier(name) ==
    /\ name # ""
    /\ \A i \in 1..Len(name) :
           IsLetter(SubSeq(name, i, i)) \/ (i > 1 /\ IsDigit(SubSeq(name, i, i)))

\* C14: every channel name and field name that saveToDB or searchHandler has put into
\* the text of a statement sent to the database is a safe identifier.
C14_OnlySafeNamesInStatements ==
    \A name \in interpolated \cup QueryNames(found.query) : SafeIdentifier(name)

\* C15: a request whose body does not bind is answered 400 and is over at once; the
\* step that handles it leaves tables, rows, the registry and every connection's
\* frames as they are, and starts no broadcast.
IsMalformed(b) == "malformed" \in DOMAIN b

C15_MalformedRejected ==
    [][\A p \in Producers :
          IsMalformed(body'[p]) =>
              /\ resp'[p] = [status |-> 400, error |-> "Invalid input"]
              /\ ppc'[p] = "idle"
              /\ dispatched'[p] # call'[p]
              /\ call'[p] # call[p] => UNCHANGED <<tables, rows, interpolated, clients, frames>>]_vars

C15_Witness ==
    \E p \in Producers, c \in DOMAIN clients :
        /\ IsMalformed(body[p]) /\ resp[p].status = 400
        /\ useDB /\ sock[c] = "open"

\* C16: a request whose body has no channel never reaches broadcastNotification: its
\* notification is written to no connection, not even to one bound to the empty name.
LacksChannel(b) == b # NoBody /\ ~IsMalformed(b) /\ "channel" \notin DOMAIN b

C16_MissingChannelNotDelivered ==
    \A p \in Producers :
        LacksChannel(body[p]) => \A c \in Conns : FramesBy(c, <<p, call[p]>>) = {}

\* C17: rows change only in the step in which a saveToDB call returns nil, and in that
\* step the channel's table exists with the base columns and a column for every key of
\* data, and exactly one row, the one of the call, is appended to it (and none elsewhere).
RowsOf(r, channel) == IF channel \in DOMAIN r THEN r[channel] ELSE <<>>
PersistReturnsNil(p) == ppc[p] = "insert" /\ ppc'[p] = "lock"

C17_PersistPostcondition ==
    [][/\ \A p \in Producers :
             PersistReturnsNil(p) =>
                 /\ notif[p].channel \in DOMAIN tables'
                 /\ BaseColumns \cup DOMAIN notif[p].data \subseteq tables'[notif[p].channel]
                 /\ RowsOf(rows', notif[p].channel) =
                        Append(RowsOf(rows, notif[p].channel),
                               NewRow(RowsOf(rows, notif[p].channel), notif[p]))
                 /\ \A t \in DOMAIN rows' \ {notif[p].channel} : rows'[t] = RowsOf(rows, t)
       /\ rows' # rows => \E p \in Producers : PersistReturnsNil(p)]_vars

C17_Witness ==
    \E p, q \in Producers :
        /\ p # q /\ useDB
        /\ ppc[p] = "lock" /\ notif[p].channel = "orders" /\ notif[q].channel = "orders"
        /\ Len(RowsOf(rows, "orders")) = 2
        /\ {"sender", "amount"} \subseteq tables["orders"]

\* C18 (as claimed): no step removes a table, a column or a row or changes a row, and a
\* step that adds a column to an existing table adds exactly one, a key of the payload.
Additive ==
    /\ \A t \in DOMAIN tables : t \in DOMAIN tables' /\ tables[t] \subseteq tables'[t]
    /\ \A t \in DOMAIN rows :
           /\ t \in DOMAIN rows' /\ Len(rows[t]) <= Len(rows'[t])
           /\ SubSeq(rows'[t], 1, Len(rows[t])) = rows[t]

AddsOneColumn(names) ==
    \A t \in DOMAIN tables :
        tables'[t] # tables[t] =>
            /\ \E column \in names \ tables[t] : tables'[t] = tables[t] \cup {column}
            /\ \A u \in DOMAIN tables \ {t} : tables'[u] = tables[u]

PayloadKeys == UNION {DOMAIN notif[p].data : p \in Producers}

C18_OnlyPayloadColumnsAdded ==
    [][Additive /\ AddsOneColumn(PayloadKeys)]_vars

\* C18 (amended): as above, but the column a step adds is a key of the payload or the
\* base column event, which ensureTable adds to a table that was created without it.
C18_AdditiveSchema ==
    [][Additive /\ AddsOneColumn(PayloadKeys \cup {"event"})]_vars

C18_Witness ==
    \E p \in Producers :
        /\ ppc[p] = "lock" /\ useDB /\ notif[p].channel = "legacy"
        /\ tables["legacy"] = LegacyTables["legacy"] \cup {"event", "sender"}
        /\ "orders" \in DOMAIN tables /\ "amount" \in tables["orders"]

\* C19: when a statement of saveToDB or ensureTable fails, the call returns the error
\* (the request is answered 500 with it) and goes no further, and a step of a call that
\* does not return nil appends no row.
SavePcs == {"create", "chkEvent", "altEvent", "chkCol", "altCol", "insert"}
Moves(p) == <<ppc[p], fieldsTodo[p], cur[p], eventExists[p]>>' # <<ppc[p], fieldsTodo[p], cur[p], eventExists[p]>>

StatementErr(p) ==
    CASE ppc[p] = "create" ->
             CreateTableIfNotExists(tables, notif[p].channel, DynamicFields(notif[p].data)).err
      [] ppc[p] = "altEvent" -> AddColumn(tables, notif[p].channel, "event").err
      [] ppc[p] = "altCol" -> AddColumn(tables, notif[p].channel, cur[p]).err
      [] ppc[p] = "insert" -> Insert(tables, rows, notif[p]).err
      [] OTHER -> "none"

C19_FailureAbortsPersist ==
    [][\A p \in Producers :
          (ppc[p] \in SavePcs /\ Moves(p)) =>
              /\ StatementErr(p) # "none" => ppc'[p] = "idle"
              /\ ppc'[p] = "idle" => (resp'[p].status = 500 /\ resp'[p].error # "none")
              /\ ppc'[p] # "lock" => rows' = rows]_vars

C19_Witness ==
    \E p \in Producers :
        /\ ppc[p] = "idle" /\ resp[p].status = 500 /\ resp[p].error = "duplicate_column"
        /\ notif[p].channel \in DOMAIN tables
        /\ RowsOf(rows, notif[p].channel) = <<>>

\* C20: a search request that binds and names a channel runs a query exactly when the
\* op of every filter is one of ==, !=, >, <, >=, <=, like, ilike, with one condition
\* per filter; otherwise it is answered 400 and no query is run, wherever the filter is.
ClaimedOps == {"==", "!=", ">", "<", ">=", "<=", "like", "ilike"}
Searched == useDB /\ found.route = "/search" /\ found.status # 401 /\ BindSearch(found.request).ok /\ BindSearch(found.request).req.channel # ""
FiltersOf(b) == BindSearch(b).req.filters

C20_OperatorAllowList ==
    Searched =>
        IF \A i \in DOMAIN FiltersOf(found.request) : FiltersOf(found.request)[i].op \in ClaimedOps
        THEN /\ found.query # NoQuery /\ found.status \in {200, 500}
             /\ Len(found.query.conditions) = Len(FiltersOf(found.request))
        ELSE /\ found.query = NoQuery /\ found.status = 400 /\ found.data = <<>>

C20_Witness ==
    /\ Searched /\ found.status = 400
    /\ Len(FiltersOf(found.request)) = 3
    /\ FiltersOf(found.request)[1].op \in ClaimedOps /\ FiltersOf(found.request)[2].op \in ClaimedOps
    /\ RowsOf(rows, "orders") # <<>>

\* C21: a search answered 200 returns only rows of the channel's table on which every
\* filter of the request holds, and it returns all of them unless they are cut at the
\* limit; without filters it returns every row up to the limit.
SearchAnswered ==
    /\ found.route = "/search"
    /\ found.status = 200
    /\ found = Served("/search", found.headers, SearchResponse(found.request))

Satisfies(row, f) ==
    LET v == ColumnValue(row, f.field)
        text == ToText(f.value)
    IN /\ v.kind # "null"
       /\ IF v.kind = "number"
          THEN CompareInt(allowedOperators[f.op], v.num, Atoi(text))
          ELSE CompareText(allowedOperators[f.op], v.str, text)

Matching(channel, filters) ==
    {RowsOf(rows, channel)[i].id : i \in
        {j \in 1..Len(RowsOf(rows, channel)) :
            \A k \in DOMAIN filters : Satisfies(RowsOf(rows, channel)[j], filters[k])}}

DataIds(data) == {data[i]["id"].num : i \in DOMAIN data}

C21_FiltersConjunctive ==
    SearchAnswered =>
        LET req == BindSearch(found.request).req
        IN /\ DataIds(found.data) \subseteq Matching(req.channel, req.filters)
           /\ Len(found.data) < SearchLimit => DataIds(found.data) = Matching(req.channel, req.filters)
           /\ req.filters = <<>> /\ Len(RowsOf(rows, req.channel)) <= SearchLimit =>
                  Len(found.data) = Len(RowsOf(rows, req.channel))

C21_Witness ==
    /\ SearchAnswered
    /\ Len(FiltersOf(found.request)) = 2
    /\ found.data # <<>>
    /\ \A k \in 1..2 :
           Matching("orders", <<FiltersOf(found.request)[k]>>) \ DataIds(found.data) # {}

\* C22: a query of /search or /notifications answered 200 returns at most 100 rows in
\* descending order of id, and they are the matching rows with the largest ids: a
\* matching row is returned exactly when fewer than 100 matching rows have a larger id.
ParamFilters(params) ==
    [k \in DOMAIN params \ {"channel"} |-> Filter(k, "==", Str(params[k]))]

NotificationsAnswered ==
    /\ found.route = "/notifications"
    /\ found.status = 200
    /\ \E order \in Orders(DOMAIN found.request \ {"channel"}) :
           found = Served("/notifications", found.headers, NotificationsResponse(found.request, order))

RequestChannel ==
    IF found.route = "/search" THEN BindSearch(found.request).req.channel ELSE found.request.channel

RequestFilters ==
    IF found.route = "/search" THEN BindSearch(found.request).req.filters ELSE ParamFilters(found.request)

C22_NewestHundred ==
    SearchAnswered \/ NotificationsAnswered =>
        LET m == Matching(RequestChannel, RequestFilters)
        IN /\ Len(found.data) <= 100
           /\ \A i, j \in DOMAIN found.data : i < j => found.data[i]["id"].num > found.data[j]["id"].num
           /\ DataIds(found.data) = {id \in m : Cardinality({n \in m : n > id}) < 100}

C22_Witness ==
    /\ NotificationsAnswered
    /\ DOMAIN found.request # {"channel"}
    /\ Len(found.data) = 100
    /\ Cardinality(Matching(RequestChannel, RequestFilters)) > 100
    /\ Len(RowsOf(rows, RequestChannel)) > Cardinality(Matching(RequestChannel, RequestFilters))

\* C23: the text of a query does not depend on the values of the request: any request
\* with the same channel and the same fields and operators in the same order gives the
\* same text, condition i refers to parameter $i, and the parameter list holds the values
\* in the order of the conditions.
SameShape(b1, b2) ==
    /\ BindSearch(b1).ok /\ BindSearch(b2).ok
    /\ BindSearch(b1).req.channel = BindSearch(b2).req.channel
    /\ Len(FiltersOf(b1)) = Len(FiltersOf(b2))
    /\ \A i \in DOMAIN FiltersOf(b1) :
           /\ FiltersOf(b1)[i].field = FiltersOf(b2)[i].field
           /\ FiltersOf(b1)[i].op = FiltersOf(b2)[i].op

VisitOrder(q) == [i \in DOMAIN q.conditions |-> Unquote(q.conditions[i].column)]

C23_ValuesOnlyInParameters ==
    /\ found.route = "/search" /\ found.query # NoQuery =>
           /\ \A b \in SearchBodies \cup QueryBodies :
                  SameShape(found.request, b) =>
                      QueryText(SearchResponse(b).query) = QueryText(found.query)
           /\ found.query.args = [i \in DOMAIN FiltersOf(found.request) |-> FiltersOf(found.request)[i].value]
           /\ \A i \in DOMAIN found.query.conditions : found.query.conditions[i].param = i
    /\ found.route = "/notifications" /\ found.query # NoQuery =>
           /\ \A params \in QueryParams :
                  DOMAIN params = DOMAIN found.request /\ params.channel = found.request.channel =>
                      QueryText(NotificationsResponse(params, VisitOrder(found.query)).query)
                          = QueryText(found.query)
           /\ found.query.args = [i \in DOMAIN found.query.conditions |->
                                     Str(found.request[VisitOrder(found.query)[i]])]
           /\ \A i \in DOMAIN found.query.conditions : found.query.conditions[i].param = i

C23_Witness ==
    /\ found.route = "/search" /\ found.status = 200
    /\ Len(found.query.args) = 2
    /\ QueryText(found.query)
           = "SELECT * FROM \"orders\" WHERE \"event\" = $1 AND \"sender\" = $2 ORDER BY id DESC LIMIT 100"
    /\ \E b \in QueryBodies :
           /\ SameShape(found.request, b)
           /\ FiltersOf(b)[2].value = Str("c1\" OR \"id")
           /\ FiltersOf(found.request)[2].value = Str("c2")

\* C24: once saveToDB has returned nil for a notification, a search on its channel with
\* the filter event == its event is answered 200 with a row that holds its event and,
\* under the column of each payload field, the text of that field's value.
Persisted(p) ==
    /\ useDB
    /\ ppc[p] \in {"lock", "sweep"} \/ (ppc[p] = "idle" /\ resp[p].status = 200)

RoundTripSearched(p) ==
    /\ Persisted(p)
    /\ found.route = "/search"
    /\ found.request = RoundTrip(notif[p])
    /\ found = Served("/search", found.headers, SearchResponse(found.request))

HoldsFields(row, n, fields) ==
    /\ row["event"] = Str(n.event)
    /\ \A f \in fields : f \in DOMAIN row /\ row[f] = Str(ToText(n.data[f]))

\* with every field of the payload
C24_RoundTripEveryField ==
    \A p \in Producers :
        RoundTripSearched(p) =>
            /\ found.status = 200
            /\ \E i \in DOMAIN found.data : HoldsFields(found.data[i], notif[p], DOMAIN notif[p].data)

\* with every field of the payload that is not named id, created_at or event
C24_RoundTrip ==
    \A p \in Producers :
        RoundTripSearched(p) =>
            /\ found.status = 200
            /\ \E i \in DOMAIN found.data : HoldsFields(found.data[i], notif[p], DynamicFields(notif[p].data))

C24_Witness ==
    /\ RoundTripSearched("p1")
    /\ notif["p1"] = [channel |-> "orders", event |-> "created",
                      data |-> [sender |-> Str("c1"), amount |-> Num(150000)]]
    /\ \E i \in DOMAIN found.data :
           found.data[i]["sender"] = Str("c1") /\ found.data[i]["amount"] = Str("150000")

\* C25: a request to /notification, /search or /notifications that does not present the
\* configured key and secret is answered 401 by a step that changes nothing else, and its
\* handler takes no step; a request that presents them is never answered 401.
PresentsCredentials(h) == h.key = validCredentials.key /\ h.secret = validCredentials.secret

C25_Authentication ==
    [][/\ \A p \in Producers :
             /\ call'[p] > 0 /\ PresentsCredentials(hdr'[p]) => resp'[p].status # 401
             /\ call'[p] > 0 /\ ~PresentsCredentials(hdr'[p]) =>
                    resp'[p].status = 401 /\ ppc'[p] = "idle"
             /\ call'[p] # call[p] /\ ~PresentsCredentials(hdr'[p]) =>
                    UNCHANGED <<dbVars, interpolated, clients, msgLock, metrics, frames, notif, found>>
       /\ found'.route # "" /\ PresentsCredentials(found'.headers) => found'.status # 401
       /\ found'.route # "" /\ ~PresentsCredentials(found'.headers) =>
              /\ found'.status = 401 /\ found'.query = NoQuery /\ found'.data = <<>>
              /\ found' # found => UNCHANGED <<dbVars, interpolated, clients, msgLock, metrics, frames, prodVars>>]_vars

C25_Witness ==
    /\ useDB
    /\ resp["p1"].status = 401 /\ hdr["p1"].key = "key" /\ body["p1"] \in Notifs
    /\ "w1" \in DOMAIN clients /\ clients["w1"] = body["p1"].channel /\ frames["w1"] # <<>>
    /\ found.status = 401 /\ found.headers.secret = "secret" /\ found.route = "/notifications"

\* C26: every connection in the registry was opened by a request that presented the
\* configured key and secret.
C26_SubscribersAuthenticated ==
    \A c \in DOMAIN clients : PresentsCredentials(hdr[c])


\* the database has not been touched: no relation created or altered, no row inserted,
\* no statement sent, and no request inside saveToDB
StorageUntouched ==
    /\ tables = LegacyTables
    /\ \A t \in DOMAIN rows : rows[t] = <<>>
    /\ interpolated = {}
    /\ \A p \in Producers : ppc[p] \notin SavePcs

\* the current request of p has been answered
Answered(p) == call[p] > 0 /\ ppc[p] = "idle"
AnsweredOk(p) == Answered(p) /\ resp[p] = [status |-> 200, error |-> "none"]

\* with the database not in use, a well-formed request touches no storage, and when it is
\* answered it has been broadcast and its answer is 200
DispatchOnly ==
    ~useDB =>
        /\ StorageUntouched
        /\ \A p \in Producers :
              Answered(p) /\ ShouldBindJSON(body[p]).ok =>
                  /\ AnsweredOk(p)
                  /\ dispatched[p] = call[p]
                  /\ <<p, call[p]>> \in returned

WellFormed ==
    IF found.route = "/search"
    THEN /\ BindSearch(found.request).ok
         /\ RequestChannel # ""
         /\ \A k \in DOMAIN RequestFilters : RequestFilters[k].op \in DOMAIN allowedOperators
    ELSE Field(found.request, "channel", "") # ""

Queried == found.route \in {"/search", "/notifications"} /\ authenticate(found.headers)

Unavailable ==
    /\ found.status = 503
    /\ found.error = "Database not available"
    /\ found.query = NoQuery
    /\ found.data = <<>>

\* every filter names a column of the channel's table, and a filter on id compares it
\* with an integer
Answerable ==
    \A k \in DOMAIN RequestFilters :
        LET f == RequestFilters[k]
        IN /\ f.field \in tables[RequestChannel] \ {"created_at"}
           /\ f.field = "id" => f.op \notin {"like", "ilike"} /\ IsDigits(ToText(f.value))

C29_MissingChannelIs400 ==
    Queried /\ found.route = "/notifications" /\ Field(found.request, "channel", "") = "" =>
        found.status = 400 /\ found.query = NoQuery

\* C30: the step in which a broadcastNotification call updates the metrics and returns
\* adds to TotalMessagesSent the number of connections its frame was written to, to
\* TotalMessagesFailed the number of connections on which the write failed, and the two
\* increments sum to the number of connections bound to the notification's channel
\* during the sweep.
BroadcastReturns(p) == ppc[p] = "sweep" /\ ppc'[p] = "idle"

C30_MetricsReportOutcome ==
    [][\A p \in Producers :
          BroadcastReturns(p) =>
              LET sent == metrics'.TotalMessagesSent - metrics.TotalMessagesSent
                  failed == metrics'.TotalMessagesFailed - metrics.TotalMessagesFailed
              IN /\ sent = Cardinality(Delivered(p))
                 /\ failed = Cardinality(failedTo[p])
                 /\ Delivered(p) \cap failedTo[p] = {}
                 /\ sent + failed = Cardinality(Bound(p))]_vars

C30_Witness ==
    /\ metrics.TotalMessagesSent = 1
    /\ metrics.TotalMessagesFailed = 1
    /\ \E p \in Producers : AnsweredOk(p) /\ Cardinality(Bound(p)) = 2
    /\ \E c \in DOMAIN clients : clients[c] = "chat"

\* C31: with useDB true, every notification frame written to a subscriber comes from a
\* request whose row was inserted in the channel's table before: for every notification
\* written, the table holds at least as many rows with its event and fields as there
\* are requests that have written it.
RecordsOf(n) ==
    {j \in 1..Len(RowsOf(rows, n.channel)) :
        RowsOf(rows, n.channel)[j] = NewRow(SubSeq(RowsOf(rows, n.channel), 1, j - 1), n)}

WrittenBy(n) ==
    UNION {{frames[c][i].by : i \in {j \in 1..Len(frames[c]) :
                                        /\ IsNotification(frames[c][j])
                                        /\ frames[c][j].notification = n}} : c \in Conns}

C31_RecordedBeforeDispatched ==
    useDB =>
        /\ \A n \in Notifs : Cardinality(WrittenBy(n)) <= Cardinality(RecordsOf(n))
        /\ \A p \in Producers :
              ppc[p] \in {"lock", "sweep"} =>
                  Cardinality(WrittenBy(notif[p]) \cup {<<p, call[p]>>})
                      <= Cardinality(RecordsOf(notif[p]))

C31_Witness ==
    /\ useDB
    /\ \E n \in Notifs :
          /\ Cardinality(WrittenBy(n)) = 2
          /\ Cardinality(RecordsOf(n)) = 2
          /\ n.channel = "orders"
          /\ "amount" \in DOMAIN n.data

\* C32: a broadcast for a channel no connection is bound to (the registry empty or not)
\* writes to no connection and counts nothing, its loop can always go on to its end, and
\* the step in which it returns answers without error and leaves the registry,
\* TotalMessagesSent and TotalMessagesFailed as they were.
Unbound(p) == Sweeping(p) /\ Bound(p) = {}

SweepGoesOn(p) == \A c \in todo[p] : ~Matches(clients[c], notif[p]) \/ sock[c] # "stalled"

C32_UnboundBroadcastIsNoOp ==
    /\ [](\A p \in Producers :
             Unbound(p) =>
                 /\ attempted[p] = {} /\ Delivered(p) = {}
                 /\ successCount[p] = 0 /\ failedCount[p] = 0
                 /\ SweepGoesOn(p))
    /\ [][\A p \in Producers :
             Unbound(p) =>
                 /\ clients' = clients
                 /\ metrics'.TotalMessagesSent = metrics.TotalMessagesSent
                 /\ metrics'.TotalMessagesFailed = metrics.TotalMessagesFailed
                 /\ BroadcastReturns(p) => resp'[p] = [status |-> 200, error |-> "none"]]_vars

C32_Witness ==
    /\ \E p \in Producers : AnsweredOk(p) /\ Bound(p) = {} /\ Delivered(p) = {}
    /\ DOMAIN clients = {"w3"}
    /\ metrics.TotalMessagesSent = 0 /\ metrics.TotalMessagesFailed = 0
    /\ metrics.TotalConnections = 1
    /\ metrics.MessagesByChannel = ("orders" :> 0)

\* C33: msgLock is held across steps only by a broadcast, metricsLock only by a getMetrics
\* call; a goroutine that holds metricsLock can always take its next step, and one that
\* holds msgLock can take its next step unless it waits for metricsLock or is in a write
\* to a stalled socket. So no goroutine waits for a lock whose holder waits, in turn,
\* for a lock.
WaitsForMsgLock ==
    {c \in Conns : cpc[c] \in {"register", "unregister"} /\ msgLock # "free"}
    \cup {p \in Producers : ppc[p] = "lock" /\ msgLock # "free"}

WaitsForMetricsLock ==
    {c \in Conns : cpc[c] \in {"regMetrics", "unregMetrics"} /\ metricsLock # {}}
    \cup {p \in Producers : SweepOver(p) /\ metricsLock # {}}

InBlockedWrite(p) == \E c \in todo[p] : Matches(clients[c], notif[p]) /\ sock[c] = "stalled"

C33_NoCircularWait ==
    /\ msgLock \in Producers \cup {"free"}
    /\ metricsLock \subseteq Readers
    /\ \A g \in metricsLock : g \notin WaitsForMsgLock /\ ENABLED GetMetricsCopy(g)
    /\ \A p \in Producers :
           msgLock = p =>
               \/ ENABLED (BroadcastDone(p) \/ \E c \in Conns : SweepStep(p, c))
               \/ p \in WaitsForMetricsLock
               \/ InBlockedWrite(p)
    /\ WaitsForMsgLock # {} => msgLock \in Producers
    /\ WaitsForMetricsLock # {} => \E g \in Readers : g \in metricsLock

C33_Witness ==
    /\ \E p \in Producers : msgLock = p /\ p \in WaitsForMetricsLock
    /\ \E q \in Producers : q \in WaitsForMsgLock
    /\ "w1" \in WaitsForMsgLock
    /\ metricsLock = Readers

\* C34: at most one goroutine is at a WriteJSON call on a connection: the handler of the
\* connection is at its confirmation write, or one broadcast is at the write of its
\* notification to the connection, never both.
WritersOf(c) ==
    {d \in {c} : cpc[d] = "confirm"}
    \cup {p \in Producers : Sweeping(p) /\ todo[p] = {c} /\ Matches(clients[c], notif[p])}

C34_SingleWriter == \A c \in Conns : Cardinality(WritersOf(c)) <= 1

\* C35: in every state the counts of MessagesByChannel add up to TotalMessagesSent.
RECURSIVE SumOver(_, _)
SumOver(m, keys) ==
    IF keys = {} THEN 0
    ELSE LET k == CHOOSE x \in keys : TRUE IN m[k] + SumOver(m, keys \ {k})

C35_ChannelCountsAddUp ==
    SumOver(metrics.MessagesByChannel, DOMAIN metrics.MessagesByChannel) = metrics.TotalMessagesSent

C35_Witness ==
    /\ metrics.TotalMessagesSent = 2
    /\ metrics.MessagesByChannel = ("orders" :> 1) @@ ("chat" :> 1)
    /\ \A p \in Producers : AnsweredOk(p)

\* C36: in every state ActiveConnections is at most TotalConnections.
C36_ActiveAtMostTotal == metrics.ActiveConnections <= metrics.TotalConnections

\* C37: once getMetrics has returned, no step of a broadcast or of a connection handler
\* changes what the returned snapshot holds, its MessagesByChannel included.
C37_SnapshotIsolated ==
    [][\A g \in Readers :
          wsStats[g] # NoStats /\ wsStats'[g] = wsStats[g] => Returned(g)' = Returned(g)]_vars

\* C38: no row holds a value under a payload key named id, created_at or event: its id is
\* the serial and its event the envelope's; no statement of saveToDB names such a key as
\* a payload column; and the step in which persist returns nil has appended a row whose
\* event is the event of the notification and whose fields are the other keys of data.
LastRow(r, channel) == RowsOf(r, channel)[Len(RowsOf(r, channel))]

C38_BaseColumnsNotOverridden ==
    /\ [](/\ interpolated \cap BaseColumns = {}
          /\ \A t \in DOMAIN rows : \A i \in 1..Len(rows[t]) :
                 /\ DOMAIN rows[t][i].fields \cap BaseColumns = {}
                 /\ rows[t][i].id = i)
    /\ [][\A p \in Producers :
             PersistReturnsNil(p) =>
                 LET new == LastRow(rows', notif[p].channel)
                 IN /\ new.event = notif[p].event
                    /\ DOMAIN new.fields = DOMAIN notif[p].data \ {"id", "created_at", "event"}
                    /\ \A k \in DOMAIN new.fields : new.fields[k] = ToText(notif[p].data[k])
                    /\ ColumnValue(new, "event") = Str(notif[p].event)
                    /\ ColumnValue(new, "id") = Num(Len(RowsOf(rows', notif[p].channel)))]_vars

C38_Witness ==
    /\ useDB
    /\ \E p \in Producers :
          /\ ppc[p] = "lock"
          /\ {"id", "created_at", "event"} \subseteq DOMAIN notif[p].data
          /\ notif[p].channel = "legacy"
          /\ notif[p].data["event"] # Str(notif[p].event)
          /\ LastRow(rows, "legacy").event = "created"
          /\ LastRow(rows, "legacy").id # notif[p].data["id"].num
          /\ tables["legacy"] = BaseColumns \cup {"sender"}

\* C39: a connection whose first message could not be read as a subscription holds the
\* error frame and nothing else, its handler has returned, it is not in the registry,
\* and it is not counted in TotalConnections; the step in which the read fails changes
\* neither the registry nor the metrics, and writes the error frame if the socket is open.
Refused(c) == cpc[c] = "done" /\ lastSub[c] = NoChannel

Counted ==
    {c \in Conns : lastSub[c] # NoChannel
                   /\ cpc[c] \in {"confirm", "readLoop", "unregister", "unregMetrics", "done"}}

C39_FailedSubscriptionNotRegistered ==
    /\ [](/\ \A c \in Conns :
                 /\ Refused(c) =>
                        /\ c \notin DOMAIN clients
                        /\ frames[c] \in {<<>>, <<ErrorFrame>>}
                        /\ \A p \in Producers : c \notin attempted[p] \cup todo[p]
                 /\ (\E i \in 1..Len(frames[c]) : frames[c][i] = ErrorFrame) => Refused(c)
          /\ metrics.TotalConnections = Cardinality(Counted))
    /\ [][\A c \in Conns :
             cpc[c] = "readSub" /\ cpc'[c] # "register" /\ cpc'[c] # "readSub" =>
                 /\ Refused(c)'
                 /\ clients' = clients /\ metrics' = metrics
                 /\ sock[c] = "open" => frames'[c] = <<ErrorFrame>>]_vars

C39_Witness ==
    /\ Refused("w1") /\ frames["w1"] = <<ErrorFrame>>
    /\ DOMAIN clients = {"w2"}
    /\ metrics.TotalConnections = 1
    /\ \E p \in Producers : AnsweredOk(p) /\ Delivered(p) = {"w2"}
====
